---- MODULE Spec2Model ----
(***************************************************************************)
(* A model of the rule evaluation engine: the validating for-each          *)
(* (validator.validate, validateForEach, validateElements), the image      *)
(* verification rule loop (engine.verifyAndPatchImages) and the JSON       *)
(* context's checkpoint stack they both drive.                             *)
(*                                                                         *)
(* One behaviour is one request.  A request enters through one of two      *)
(* entry points, chosen in Init: validateResourceHandler.Process on one    *)
(* rule, or engine.verifyAndPatchImages on one policy.  Evaluation is      *)
(* sequential and depth first; the recursion of validate through           *)
(* validateElements is an explicit stack of validator activations.         *)
(*                                                                         *)
(* The answers of the external collaborators (context loader, condition    *)
(* evaluator, list evaluation, pattern matcher, image handler) are inputs, *)
(* drawn where the code consults them.                                     *)
(***************************************************************************)
EXTENDS Integers, Sequences, FiniteSets, TLC

\* ------------------------------------------------------------------ bounds

\* Longest evaluated element list of a for-each.
MaxElems == 2
\* Most for-each entries one validator declares.
MaxLists == 2
\* Deepest validator that may itself declare a for-each.
MaxNesting == 1
\* Most rules of an expanded policy.
MaxRules == 2
\* Most responses the rule handlers of a policy return together.
MaxResps == 4
\* Most candidates of an anyPattern.
MaxPatterns == 2
\* Most targets of a mutate-existing rule.
MaxTargets == 2

\* --------------------------------------------------------------- responses

RuleName == "r"

\* engineapi.RuleStatus values a handler can produce.
Statuses == {"pass", "fail", "error", "skip", "warn"}

\* The nil *RuleResponse.
NilResponse == [name |-> "", type |-> "", status |-> "nil", message |-> <<>>]

\* internal.RuleResponse(rule, ruleType, msg, status)
RuleResponse(type, msg, status) ==
    [name |-> RuleName, type |-> type, status |-> status, message |-> msg]

\* internal.RuleError(rule, ruleType, msg, err): status Error, "<msg>: <err>"
RuleError(type, msg, err) == RuleResponse(type, <<msg, err>>, "error")

\* internal.RuleSkip(rule, ruleType, msg)
RuleSkip(type, msg) == RuleResponse(type, <<msg>>, "skip")

\* internal.RulePass(rule, ruleType, msg)
RulePass(type, msg) == RuleResponse(type, <<msg>>, "pass")

\* ------------------------------------------------------------ JSON context

\* The variables the engine binds: the for-each element and its index,
\* what the context loader loads for the context entries of a rule or of
\* a target, and the target of a mutate-existing rule.
CtxNames == {"element", "elementIndex", "entry", "target"}

Unbound == -1

\* The context of a fresh request: nothing bound.
EmptyRaw == [n \in CtxNames |-> Unbound]

\* A context is its current document and the stack of saved snapshots.
NewContext == [jsonRaw |-> EmptyRaw, jsonRawCheckpoints |-> <<>>]

\* Checkpoint(): push a copy of the current document.
Checkpoint(c) ==
    [c EXCEPT !.jsonRawCheckpoints = Append(@, c.jsonRaw)]

\* Restore(): the document becomes the newest snapshot, which is popped;
\* nothing happens without a snapshot.
Restore(c) ==
    IF c.jsonRawCheckpoints = <<>> THEN c
    ELSE [jsonRaw |-> c.jsonRawCheckpoints[Len(c.jsonRawCheckpoints)],
          jsonRawCheckpoints |->
              SubSeq(c.jsonRawCheckpoints, 1, Len(c.jsonRawCheckpoints) - 1)]

\* Reset(): the document becomes the newest snapshot, which stays.
Reset(c) ==
    IF c.jsonRawCheckpoints = <<>> THEN c
    ELSE [c EXCEPT !.jsonRaw = c.jsonRawCheckpoints[Len(c.jsonRawCheckpoints)]]

\* AddVariable / AddContextEntry: bind one name.
Bind(c, name, val) == [c EXCEPT !.jsonRaw[name] = val]

\* AddTargetResource: binds the target.
AddTargetResource(c, target) == Bind(c, "target", target)

\* engineutils.AddElementToContext: binds element and elementIndex.
AddElementToContext(c, element, index) ==
    Bind(Bind(c, "element", element), "elementIndex", index)

\* ------------------------------------------------- collaborators' answers

\* contextLoader: nil, a gojmespath.NotFoundError, or any other error.
LoadOutcomes == {"ok", "notfound", "error"}

\* internal.CheckPreconditions / CheckDenyPreconditions: (true, nil),
\* (false, nil) or (_, err).
CondOutcomes == {"true", "false", "err"}

\* validate.MatchPattern on one pattern: nil, a *PatternError with Skip set,
\* a *PatternError with an empty Path, a *PatternError with a Path, or an
\* error that is no *PatternError.
MatchOutcomes == {"match", "skip", "nopath", "path", "other"}

\* The candidates of an anyPattern, each with the matcher's answer.
MatchSeqs ==
    UNION {[1..n -> MatchOutcomes] : n \in 0..MaxPatterns}

\* What validateResourceWithRule finds in the policy context: a for-each
\* element, a delete request without one, or the new resource.
Targets == {"element", "delete", "resource"}

\* The paths a *PatternError may name.
Paths == {"spec.replicas", "spec.image"}

\* rule.Validation.Message: none, or a text with or without a final dot.
RuleMessages == {"", "m", "m."}

\* variables.SubstituteAll on the rule's message: a string, an error, or a
\* value that is no string (getDenyMessage, lines 240-245, tells them apart).
MessageOutcomes == {"string", "err", "nonstring"}

\* The path the matcher names for the i-th pattern when no answer says so.
DefaultPaths == [i \in 1..MaxPatterns |-> "spec.replicas"]

\* The answers nobody has asked for yet.
NoAnswers ==
    [load |-> "ok", loaded |-> FALSE, pre |-> "true", deny |-> "false",
     subst |-> "ok", deser |-> "ok", target |-> "resource", match |-> <<>>,
     paths |-> DefaultPaths, msg |-> "", msgSubst |-> "string"]

\* ------------------------------------------------------------- validator

Validation == "Validation"

\* forEach == nil
NilForEach == -1

\* The fields of a validator the control flow reads: whether deny, pattern
\* and anyPattern are set, and the number of for-each entries (or nil).
Validators(nesting) ==
    [deny : BOOLEAN, pattern : BOOLEAN, anyPattern : BOOLEAN,
     forEach : IF nesting <= MaxNesting
               THEN {NilForEach} \cup (0..MaxLists)
               ELSE {NilForEach}]

\* The answers the collaborators may give to validator v, in the order
\* validate asks; an answer that is never asked for stays as in NoAnswers.
BodyAnswers(v, o) ==
    IF v.deny
    THEN {[o EXCEPT !.deny = d] : d \in CondOutcomes}
    ELSE IF v.pattern
    THEN {[o EXCEPT !.subst = "err"]}
         \cup {[o EXCEPT !.target = "delete"]}
         \cup {[o EXCEPT !.target = t, !.match = <<m>>] :
                  t \in Targets \ {"delete"}, m \in MatchOutcomes}
    ELSE IF v.anyPattern
    THEN {[o EXCEPT !.subst = "err"]}
         \cup {[o EXCEPT !.target = "delete"]}
         \cup {[o EXCEPT !.deser = "err"]}
         \cup {[o EXCEPT !.match = ms] : ms \in MatchSeqs}
    ELSE {o}

Answers(v) ==
    LET loads == {[NoAnswers EXCEPT !.load = l, !.loaded = b] :
                     l \in LoadOutcomes, b \in BOOLEAN}
        conds == UNION {IF o.load = "ok"
                        THEN {[o EXCEPT !.pre = p] : p \in CondOutcomes}
                        ELSE {o} : o \in loads}
    IN  UNION {IF o.load = "ok" /\ o.pre = "true"
               THEN BodyAnswers(v, o)
               ELSE {o} : o \in conds}

MatchAt(o, i) == IF i <= Len(o.match) THEN o.match[i] ELSE "match"

\* loadContext, but a not-found error is only logged, not returned.
loadContext_IgnoreNotFound(load) ==
    IF load # "ok"
    THEN IF load = "notfound" THEN "ok" ELSE "error"
    ELSE "ok"

\* loadContext: the loader's error is logged (at a verbosity that depends
\* on its kind) and returned; "ok" is nil.
loadContext(load) ==
    IF load # "ok"
    THEN IF load = "notfound" THEN "notfound" ELSE "error"
    ELSE "ok"

\* checkPreconditions, but unmet preconditions do not end validate.
checkPreconditions_NoSkip(pre) ==
    IF pre = "err"
    THEN RuleError(Validation, "failed to evaluate preconditions", "err")
    ELSE NilResponse

\* validate, lines 104-110: the response that ends validate when the
\* preconditions fail to evaluate or are not met, else nil.
checkPreconditions(pre) ==
    IF pre = "err"
    THEN RuleError(Validation, "failed to evaluate preconditions", "err")
    ELSE IF pre # "true"
    THEN RuleSkip(Validation, "preconditions not met")
    ELSE NilResponse

\* getDenyMessage, lines 228-246: the text for conditions that do not deny
\* names the rule; for conditions that deny it is the text naming the rule
\* when the rule has no message, the message as written when substituting
\* its variables fails, the substituted message when that is a string, and
\* a fixed text when it is not.
getDenyMessage(deny, msg, msgSubst) ==
    IF ~deny
    THEN <<"validation rule", RuleName, "passed.">>
    ELSE IF msg = ""
    THEN <<"validation error: rule", RuleName, "failed">>
    ELSE IF msgSubst = "err"
    THEN <<msg>>
    ELSE IF msgSubst = "string"
    THEN <<msg>>
    ELSE <<"the produced message didn't resolve to a string, check your policy definition.">>

\* validateDeny, but conditions that fail to evaluate count as not denying.
validateDeny_ErrorPasses(o) ==
    IF o.deny = "true"
    THEN RuleResponse(Validation, getDenyMessage(TRUE, o.msg, o.msgSubst), "fail")
    ELSE RuleResponse(Validation, getDenyMessage(FALSE, o.msg, o.msgSubst), "pass")

\* validateDeny, lines 217-226, o being the answers of the collaborators.
validateDeny(o) ==
    IF o.deny = "err"
    THEN RuleError(Validation, "failed to check deny preconditions", "err")
    ELSE IF o.deny = "true"
    THEN RuleResponse(Validation, getDenyMessage(TRUE, o.msg, o.msgSubst), "fail")
    ELSE RuleResponse(Validation, getDenyMessage(FALSE, o.msg, o.msgSubst), "pass")

\* A run-time panic (a nil pointer dereference, a failed type assertion)
\* in place of a response.
Panic == [name |-> RuleName, type |-> Validation, status |-> "panic", message |-> <<>>]

\* What buildErrorMessage leaves when it panics.
PanicText == <<"panic">>

\* err.Error() of what the matcher returned.
ErrorText(m) ==
    IF m = "skip" THEN "pattern skipped"
    ELSE IF m = "nopath" THEN "pattern error"
    ELSE IF m = "path" THEN "pattern mismatch"
    ELSE "matcher error"

\* The path of the *PatternError the matcher returned for the i-th pattern.
PathAt(o, i) ==
    IF MatchAt(o, i) # "path" THEN ""
    ELSE IF i \in DOMAIN o.paths THEN o.paths[i] ELSE "spec.replicas"

\* msg, with a "." appended unless it ends in one (lines 377-379, 398-399).
WithDot(msg) == IF msg = "m" THEN "m." ELSE msg

\* buildErrorMessage(err, path), lines 364-387. The message of the rule is
\* substituted only when there is one; line 376 asserts the substituted
\* value to be a string.
buildErrorMessage(o, m, path) ==
    IF o.msg = ""
    THEN IF path # ""
         THEN <<"validation error: rule", RuleName, "failed at path", path>>
         ELSE <<"validation error: rule", RuleName, "execution error:", ErrorText(m)>>
    ELSE IF o.msgSubst = "err"
    THEN <<"validation error: variables substitution error in rule", RuleName,
           "execution error:", ErrorText(m)>>
    ELSE IF o.msgSubst # "string"
    THEN PanicText
    ELSE IF path # ""
    THEN <<"validation error:", WithDot(o.msg), "rule", RuleName, "failed at path", path>>
    ELSE <<"validation error:", WithDot(o.msg), "rule", RuleName,
           "execution error:", ErrorText(m)>>

\* A response with the message buildErrorMessage builds, if it builds one.
ErrorMessageResponse(o, m, path, status) ==
    IF buildErrorMessage(o, m, path) = PanicText THEN Panic
    ELSE RuleResponse(Validation, buildErrorMessage(o, m, path), status)

\* validatePatterns, pattern branch (lines 263-286), m being what the
\* matcher returned.
validatePattern(o, m) ==
    IF m = "match"
    THEN RuleResponse(Validation, <<"validation rule", RuleName, "passed.">>, "pass")
    ELSE IF m = "skip" THEN RuleSkip(Validation, ErrorText(m))
    ELSE IF m = "nopath" THEN ErrorMessageResponse(o, m, "", "error")
    ELSE IF m = "path" THEN ErrorMessageResponse(o, m, PathAt(o, 1), "fail")
    ELSE Panic \* line 280 reads pe.Path of the nil *PatternError

\* The decimal text of the 0-based index of the i-th candidate.
IndexText == <<"0", "1", "2", "3", "4", "5">>

\* validatePatterns, anyPattern branch (lines 288-343): the index of the
\* first matching candidate, and the skipped and failed ones before the end.
FirstMatch(ms) ==
    IF \E i \in 1..Len(ms) : ms[i] = "match"
    THEN CHOOSE i \in 1..Len(ms) :
            ms[i] = "match" /\ \A j \in 1..(i - 1) : ms[j] # "match"
    ELSE 0

\* Lines 304-311: the error kept for the i-th candidate, a *PatternError.
patternErr(o, i) ==
    IF MatchAt(o, i) = "skip"
    THEN <<"rule", RuleName, IndexText[i], "skipped:", ErrorText("skip")>>
    ELSE IF PathAt(o, i) = ""
    THEN <<"rule", RuleName, IndexText[i], "failed:", ErrorText("nopath")>>
    ELSE <<"rule", RuleName, IndexText[i], "failed at path", PathAt(o, i)>>

RECURSIVE JoinErrors(_, _, _)
\* strings.Join over the errors kept for the candidates of the given kinds,
\* from candidate i on, in the order of the candidates.
JoinErrors(o, kinds, i) ==
    IF i > Len(o.match) THEN <<>>
    ELSE (IF o.match[i] \in kinds THEN patternErr(o, i) ELSE <<>>)
         \o JoinErrors(o, kinds, i + 1)

\* buildAnyPatternErrorMessage, lines 389-400.
buildAnyPatternErrorMessage(o, errStr) ==
    IF o.msg = "" THEN <<"validation error:">> \o errStr
    ELSE <<"validation error:", WithDot(o.msg)>> \o errStr

\* validatePatterns, anyPattern branch (lines 288-343). An error that is no
\* *PatternError is kept in neither list.
validateAnyPattern(o) ==
    IF o.deser # "ok"
    THEN RuleError(Validation, "failed to deserialize anyPattern, expected type array", "err")
    ELSE IF FirstMatch(o.match) # 0
    THEN RuleResponse(Validation, <<"validation rule", RuleName, "anyPattern",
                                    IndexText[FirstMatch(o.match)], "passed.">>, "pass")
    ELSE LET skipped == {i \in 1..Len(o.match) : o.match[i] = "skip"}
             failed == {i \in 1..Len(o.match) : o.match[i] \in {"nopath", "path"}}
         IN  IF skipped # {} /\ failed = {}
             THEN RuleResponse(Validation, JoinErrors(o, {"skip"}, 1), "skip")
             ELSE IF failed # {}
             THEN RuleResponse(Validation,
                               buildAnyPatternErrorMessage(o, JoinErrors(o, {"nopath", "path"}, 1)),
                               "fail")
             ELSE RulePass(Validation, o.msg)

\* validatePatterns
validatePatterns(v, o) ==
    IF v.pattern THEN validatePattern(o, MatchAt(o, 1))
    ELSE IF v.anyPattern THEN validateAnyPattern(o)
    ELSE RulePass(Validation, o.msg)

\* validateResourceWithRule
validateResourceWithRule(v, o) ==
    IF o.target = "element" THEN validatePatterns(v, o)
    ELSE IF o.target = "delete" THEN NilResponse
    ELSE validatePatterns(v, o)

\* substitutePatterns, but the anyPattern is looked at first.
substitutePatterns_AnyPatternFirst(v, o) ==
    IF v.anyPattern THEN [what |-> "substitute:anyPattern", err |-> o.subst # "ok"]
    ELSE IF v.pattern THEN [what |-> "substitute:pattern", err |-> o.subst # "ok"]
    ELSE [what |-> "substitute:nothing", err |-> FALSE]

\* substitutePatterns: substitutes the pattern when there is one, else the
\* anyPattern when there is one; what it touched and whether it failed.
substitutePatterns(v, o) ==
    IF v.pattern THEN [what |-> "substitute:pattern", err |-> o.subst # "ok"]
    ELSE IF v.anyPattern THEN [what |-> "substitute:anyPattern", err |-> o.subst # "ok"]
    ELSE [what |-> "substitute:nothing", err |-> FALSE]

\* What validatePatterns matches: the pattern when there is one, else the
\* anyPattern.
Matched(v, o) ==
    IF o.target = "delete" THEN <<>>
    ELSE IF v.pattern THEN <<"match:pattern">>
    ELSE IF v.anyPattern THEN <<"match:anyPattern">>
    ELSE <<>>

\* validate (lines 100-132) up to the point where it returns or enters
\* validateForEach: the response, the collaborators consulted in order
\* (trace), and whether validateForEach is entered.
validate(v, o) ==
    IF loadContext(o.load) # "ok"
    THEN [resp |-> RuleError(Validation, "failed to load context", loadContext(o.load)),
          trace |-> <<"loadContext">>, enter |-> FALSE]
    ELSE IF checkPreconditions(o.pre) # NilResponse
    THEN [resp |-> checkPreconditions(o.pre),
          trace |-> <<"loadContext", "preconditions">>, enter |-> FALSE]
    ELSE IF v.deny
    THEN [resp |-> validateDeny(o),
          trace |-> <<"loadContext", "preconditions", "deny">>, enter |-> FALSE]
    ELSE IF v.pattern \/ v.anyPattern
    THEN IF substitutePatterns(v, o).err
         THEN [resp |-> RuleError(Validation, "variable substitution failed", "err"),
               trace |-> <<"loadContext", "preconditions", substitutePatterns(v, o).what>>,
               enter |-> FALSE]
         ELSE [resp |-> validateResourceWithRule(v, o),
               trace |-> <<"loadContext", "preconditions", substitutePatterns(v, o).what>>
                         \o Matched(v, o),
               enter |-> FALSE]
    ELSE IF v.forEach # NilForEach
    THEN [resp |-> NilResponse,
          trace |-> <<"loadContext", "preconditions", "forEach">>, enter |-> TRUE]
    ELSE [resp |-> NilResponse,
          trace |-> <<"loadContext", "preconditions">>, enter |-> FALSE]

\* validateForEachVerdict, but nothing applied is a Pass as well.
validateForEachVerdict_PassOnZero(applyCount, forEach) ==
    IF applyCount = 0 /\ forEach = NilForEach
    THEN NilResponse
    ELSE RulePass(Validation, "rule passed")

\* validateForEach, lines 148-154: the verdict once every list is done.
validateForEachVerdict(applyCount, forEach) ==
    IF applyCount = 0
    THEN IF forEach = NilForEach
         THEN NilResponse
         ELSE RuleSkip(Validation, "rule skipped")
    ELSE RulePass(Validation, "rule passed")

\* validateElements, lines 181-199: what the loop does with the response r
\* of the element at position index of a list of n elements: go on to the
\* next element without counting ("continue"), count it and go on
\* ("apply"), or return a response ("return").
Folded(r) == RuleResponse(Validation, <<"validation failure: ">> \o r.message, r.status)

\* elementResult, but the response that ends the loop is given status Fail.
elementResult_StatusFail(r, index, n) ==
    IF r = NilResponse THEN [do |-> "continue", resp |-> NilResponse]
    ELSE IF r.status = "skip" THEN [do |-> "continue", resp |-> NilResponse]
    ELSE IF r.status # "pass"
    THEN IF r.status = "error" /\ index < n - 1
         THEN [do |-> "continue", resp |-> NilResponse]
         ELSE [do |-> "return",
               resp |-> RuleResponse(Validation, <<"validation failure: ">> \o r.message, "fail")]
    ELSE [do |-> "apply", resp |-> NilResponse]

\* elementResult, but an Error ends the loop wherever the element is.
elementResult_AbortOnError(r, index, n) ==
    IF r = NilResponse THEN [do |-> "continue", resp |-> NilResponse]
    ELSE IF r.status = "skip" THEN [do |-> "continue", resp |-> NilResponse]
    ELSE IF r.status # "pass" THEN [do |-> "return", resp |-> Folded(r)]
    ELSE [do |-> "apply", resp |-> NilResponse]

\* elementResult, but any non-Pass status is passed over before the last
\* element, not Error alone.
elementResult_ContinueOnFail(r, index, n) ==
    IF r = NilResponse THEN [do |-> "continue", resp |-> NilResponse]
    ELSE IF r.status = "skip" THEN [do |-> "continue", resp |-> NilResponse]
    ELSE IF r.status # "pass"
    THEN IF index < n - 1
         THEN [do |-> "continue", resp |-> NilResponse]
         ELSE [do |-> "return", resp |-> Folded(r)]
    ELSE [do |-> "apply", resp |-> NilResponse]

\* elementResult, but the last element counts as one before the last.
elementResult_SwallowsLast(r, index, n) ==
    IF r = NilResponse THEN [do |-> "continue", resp |-> NilResponse]
    ELSE IF r.status = "skip" THEN [do |-> "continue", resp |-> NilResponse]
    ELSE IF r.status # "pass"
    THEN IF r.status = "error"
         THEN IF index <= n - 1
              THEN [do |-> "continue", resp |-> NilResponse]
              ELSE [do |-> "return", resp |-> Folded(r)]
         ELSE [do |-> "return", resp |-> Folded(r)]
    ELSE [do |-> "apply", resp |-> NilResponse]

elementResult(r, index, n) ==
    IF r = NilResponse THEN [do |-> "continue", resp |-> NilResponse]
    ELSE IF r.status = "skip" THEN [do |-> "continue", resp |-> NilResponse]
    ELSE IF r.status # "pass"
    THEN IF r.status = "error"
         THEN IF index < n - 1
              THEN [do |-> "continue", resp |-> NilResponse]
              ELSE [do |-> "return", resp |-> Folded(r)]
         ELSE [do |-> "return", resp |-> Folded(r)]
    ELSE [do |-> "apply", resp |-> NilResponse]

\* deferRestore, but the Restore is not deferred: no return runs it.
deferRestore_Missing(c) == c

\* validateElements, line 159: the deferred Restore, run on every return.
deferRestore(c) == Restore(c)

\* resetForElement, but the context is not reset.
resetForElement_Missing(c) == c

\* validateElements, line 167: the context is reset before each element.
resetForElement(c) == Reset(c)

\* validateForEach, lines 143-146: a non-Pass response of validateElements
\* is returned at once.
forEachReturns(resp) == resp.status # "pass"

\* ------------------------------------------------- image verification loop

\* kyvernov1.ApplyRulesType
ApplyModes == {"All", "One"}

\* An expanded rule: whether it declares verifyImages.
Rules == [verifyImages : BOOLEAN]

RuleLists == UNION {[1..n -> Rules] : n \in 0..MaxRules}

\* engineapi.NewPolicyResponse(): no response yet, and none counted.
NewPolicyResponse == [rules |-> <<>>, applied |-> 0]

\* internal.AddRuleResponse: appends the response and counts it when the
\* rule succeeded, that is when the response is a Pass. A rule's failure
\* (a Fail or an Error response) is not counted, since it never keeps the
\* rule loop from the next rule, and neither is a Skip.
AddRuleResponse(resp, rr) ==
    [rules |-> Append(resp.rules, rr),
     applied |-> IF rr.status = "pass" THEN resp.applied + 1 ELSE resp.applied]

\* AddRuleResponses, but only the first response of the rule is added.
AddRuleResponses_FirstOnly(resp, rrs) ==
    IF rrs = <<>> THEN resp ELSE AddRuleResponse(resp, Head(rrs))

RECURSIVE AddRuleResponses(_, _)
\* verifyAndPatchImages, lines 56-60: every response of the rule, in order.
AddRuleResponses(resp, rrs) ==
    IF rrs = <<>> THEN resp
    ELSE AddRuleResponses(AddRuleResponse(resp, Head(rrs)), Tail(rrs))

\* What invokeRuleHandler returns for a rule: nothing when the handler
\* factory gives no handler (the rule has no verifyImages), else whatever
\* responses the handler produces, while the policy response has room.
HandlerResponses(i, rule, room) ==
    IF ~rule.verifyImages THEN {<<>>}
    ELSE UNION {[1..n -> {[rule |-> i, status |-> st] : st \in Statuses}] :
                   n \in 0..room}

\* breakAfterRule, but whatever the apply-rules mode.
breakAfterRule_AnyMode(applyRules, resp) ==
    resp.applied > 0

\* verifyAndPatchImages, lines 61-63: whether the rule loop breaks.
breakAfterRule(applyRules, resp) ==
    applyRules = "One" /\ resp.applied > 0

\* verifyAndPatchImages, line 28: the deferred Restore.
deferRestoreImages(c) == Restore(c)

\* ---------------------------------------------------------------- patchers

Mutation == "Mutation"

\* The names of the rules a patcher is made for.
RuleNames == {"r", "s"}

\* unstructured.Unstructured{}
EmptyDocument == [base |-> "", patched |-> FALSE]

\* The resources a patcher is made for.
Documents == {[base |-> b, patched |-> FALSE] : b \in {"pod", "deployment"}}

\* ConvertPatchesToJSON on the patch body: nil ("ok") or the text of its
\* error.
ConvertOutcomes == {"ok", "invalid character", "unexpected end of input"}

\* How applying a patch ends: the resource is patched, or the patcher fails
\* with status Error or Fail.
ProcessOutcomes == {"patched", "error", "fail"}

\* ProcessPatchJSON6902 and ProcessStrategicMergePatch: the patched resource
\* with a Pass response, or the empty document with the failure's response;
\* the response names the rule and has type Mutation.
ProcessPatch(ruleName, proc, resource) ==
    IF proc = "patched"
    THEN [resp |-> [name |-> ruleName, type |-> Mutation, status |-> "pass",
                    message |-> <<"applied">>],
          doc |-> [resource EXCEPT !.patched = TRUE]]
    ELSE [resp |-> [name |-> ruleName, type |-> Mutation, status |-> proc,
                    message |-> <<"failed to apply">>],
          doc |-> EmptyDocument]

\* patchStrategicMergeHandler.Patch
patchStrategicMergeHandlerPatch(h) ==
    ProcessPatch(h.ruleName, h.proc, h.patchedResource)

\* patchesJSON6902Handler.Patch, but a body that does not convert gives
\* status Error.
patchesJSON6902HandlerPatch_StatusError(h) ==
    IF h.convert # "ok"
    THEN [resp |-> [name |-> h.ruleName, type |-> Mutation, status |-> "error",
                    message |-> <<h.convert>>],
          doc |-> EmptyDocument]
    ELSE ProcessPatch(h.ruleName, h.proc, h.patchedResource)

\* patchesJSON6902Handler.Patch, but a body that does not convert leaves
\* the resource as the returned document.
patchesJSON6902HandlerPatch_KeepsResource(h) ==
    IF h.convert # "ok"
    THEN [resp |-> [name |-> h.ruleName, type |-> Mutation, status |-> "fail",
                    message |-> <<h.convert>>],
          doc |-> h.patchedResource]
    ELSE ProcessPatch(h.ruleName, h.proc, h.patchedResource)

\* patchesJSON6902Handler.Patch
patchesJSON6902HandlerPatch(h) ==
    IF h.convert # "ok"
    THEN [resp |-> [name |-> h.ruleName, type |-> Mutation, status |-> "fail",
                    message |-> <<h.convert>>],
          doc |-> EmptyDocument]
    ELSE ProcessPatch(h.ruleName, h.proc, h.patchedResource)

\* Patcher.Patch on either handler.
Patch(h) ==
    IF h.kind = "patchesJSON6902" THEN patchesJSON6902HandlerPatch(h)
    ELSE patchStrategicMergeHandlerPatch(h)

\* ---------------------------------------------------------- mutate existing

\* What happens to one target in mutateExistingHandler.Process: whether its
\* object is there, and what AddTargetResource, the context loader,
\* CheckPreconditions and the mutation answer; loaded says that the loader
\* bound an entry of target.context before it returned. buildRuleResponse
\* gives no response ("nil") or one of some status, for the for-each
\* mutator and for mutate.Mutate alike.
NoTarget ==
    [object |-> TRUE, add |-> "ok", load |-> "ok", loaded |-> FALSE,
     pre |-> "true", mutate |-> "nil"]

\* The answers for one target, in the order the loop asks.
TargetOutcomes ==
    {[NoTarget EXCEPT !.object = FALSE],
     [NoTarget EXCEPT !.add = "err"]}
    \cup UNION {{[NoTarget EXCEPT !.load = "err", !.loaded = b]}
                \cup {[NoTarget EXCEPT !.pre = p, !.loaded = b] :
                         p \in {"false", "err"}}
                \cup {[NoTarget EXCEPT !.mutate = m, !.loaded = b] :
                         m \in {"nil", "pass", "fail", "error", "skip"}} :
                b \in BOOLEAN}

\* The targets loadTargets returns.
TargetLists == UNION {[1..n -> TargetOutcomes] : n \in 0..MaxTargets}

\* A response of the mutate-existing rule, made while at target i (0: before
\* the loop).
TargetResponse(i, status, msg) ==
    [name |-> RuleName, type |-> Mutation, status |-> status, message |-> msg,
     target |-> i]

\* mutateExistingHandler.Process, lines 45-90: the responses one pass of the
\* loop appends for target t, the i-th.
processTarget(t, i) ==
    IF ~t.object THEN <<>>
    ELSE IF t.add # "ok" THEN <<>> \* lines 49-52: logged, nothing appended
    ELSE IF t.load # "ok"
    THEN <<TargetResponse(i, "error", <<"failed to load context", "err">>)>>
    ELSE IF t.pre = "err"
    THEN <<TargetResponse(i, "error", <<"failed to evaluate preconditions", "err">>)>>
    ELSE IF t.pre # "true"
    THEN <<TargetResponse(i, "skip", <<"preconditions not met">>)>>
    ELSE IF t.mutate = "nil" THEN <<>>
    ELSE <<TargetResponse(i, t.mutate, <<"mutated">>)>>

RECURSIVE processTargets_StopsAtError(_, _)
\* processTargets, but the loop ends with the first target that gives an
\* Error.
processTargets_StopsAtError(targets, i) ==
    IF i > Len(targets) THEN <<>>
    ELSE LET rs == processTarget(targets[i], i)
         IN  IF rs # <<>> /\ rs[1].status = "error" THEN rs
             ELSE rs \o processTargets_StopsAtError(targets, i + 1)

RECURSIVE processTargets(_, _)
\* The loop of lines 44-91 from target i on.
processTargets(targets, i) ==
    IF i > Len(targets) THEN <<>>
    ELSE processTarget(targets[i], i) \o processTargets(targets, i + 1)

\* Lines 48-54 for target t, the i-th: the JSON context of
\* policyContext.Copy() is that of the request; AddTargetResource binds
\* the target in it and the context loader the entries of target.context,
\* and Process takes nothing back (it pushes no checkpoint and runs no
\* Restore or Reset).
processTargetContext(c, t, i) ==
    IF ~t.object \/ t.add # "ok" THEN c
    ELSE IF t.loaded THEN Bind(AddTargetResource(c, i), "entry", i)
    ELSE AddTargetResource(c, i)

RECURSIVE processTargetsContext(_, _, _)
\* The JSON context after the loop of lines 44-91 from target i on.
processTargetsContext(c, targets, i) ==
    IF i > Len(targets) THEN c
    ELSE processTargetsContext(processTargetContext(c, targets[i], i), targets, i + 1)

\* mutateExistingHandler.Process, lines 36-91: the responses. An error of
\* loadTargets is appended and the targets it returned are processed all
\* the same.
mutateExistingHandlerResponses(loadErr, targets) ==
    (IF loadErr THEN <<TargetResponse(0, "error", <<"", "err">>)>> ELSE <<>>)
    \o processTargets(targets, 1)

\* mutateExistingHandler.Process: line 92 returns the resource it was
\* called with and the responses.
mutateExistingHandlerProcess(resource, loadErr, targets) ==
    [resource |-> resource,
     responses |-> mutateExistingHandlerResponses(loadErr, targets)]

\* --------------------------------------------------------------- arithmetic

\* The arithmetic is computed as Go computes it: a Scalar is a float64
\* with its roundings, a Duration an int64 of nanoseconds, a Quantity an
\* inf.Dec with a format, and what a function returns for a Quantity is
\* the string Quantity.String() writes, read again by
\* resource.ParseQuantity when it is an argument of the next call. Left
\* out: the infinities, NaN and the subnormal numbers of float64, the
\* wrap-around of int64, the largest quantity ParseQuantity allows, and
\* powers of ten beyond MaxPow10.

\* An operator of this part that uses another applies it through Go, by
\* its name and with the tuple of its arguments (the definition follows
\* jpSum).
RECURSIVE Go(_, _)

\* ------------------------------------------------------------ big numbers

\* Natural numbers of any size: the limbs to base 2^15, the least
\* significant first, without leading zeros (an int64, a big.Int and the
\* mantissa of a float64 do not fit the integers of TLA+'s tools).
Base == 32 * 1024

Pow2 ==
    <<1, 2, 4, 8, 16, 32, 64, 128, 256, 512, 1024, 2048, 4096, 8192, 16384,
      32768>>

BNorm(a) ==
    LET n == CHOOSE k \in 0..Len(a) :
                 /\ k = 0 \/ a[k] # 0
                 /\ \A j \in (k + 1)..Len(a) : a[j] = 0
    IN  SubSeq(a, 1, n)

Limb(a, i) == IF i <= Len(a) THEN a[i] ELSE 0

\* n >= 0 as a big number
BOfInt(n) ==
    IF n = 0 THEN <<>>
    ELSE IF n < Base THEN <<n>>
    ELSE IF n < Base * Base THEN <<n % Base, n \div Base>>
    ELSE <<n % Base, (n \div Base) % Base, n \div (Base * Base)>>

\* The sum of two rows of limbs: a carry enters limb i when a limb below it
\* overflows and every limb between is full.
BAdd(a, b) ==
    LET n == IF Len(a) > Len(b) THEN Len(a) ELSE Len(b)
        s == [i \in 1..(n + 1) |-> Limb(a, i) + Limb(b, i)]
        carry(i) == \E j \in 1..(i - 1) :
                        /\ s[j] >= Base
                        /\ \A k \in (j + 1)..(i - 1) : s[k] = Base - 1
    IN  BNorm([i \in 1..(n + 1) |->
                  (s[i] + (IF carry(i) THEN 1 ELSE 0)) % Base])

\* -1, 0 or 1 as a is less than, equal to or greater than b.
BCmp(a, b) ==
    IF Len(a) < Len(b) THEN 0 - 1
    ELSE IF Len(a) > Len(b) THEN 1
    ELSE IF a = b THEN 0
    ELSE LET i == CHOOSE k \in 1..Len(a) :
                      /\ a[k] # b[k]
                      /\ \A j \in (k + 1)..Len(a) : a[j] = b[j]
         IN  IF a[i] < b[i] THEN 0 - 1 ELSE 1

\* a - b for a >= b
BSub(a, b) ==
    LET d == [i \in 1..Len(a) |-> a[i] - Limb(b, i)]
        borrow(i) == \E j \in 1..(i - 1) :
                         /\ d[j] < 0
                         /\ \A k \in (j + 1)..(i - 1) : d[k] = 0
    IN  BNorm([i \in 1..Len(a) |->
                  (d[i] - (IF borrow(i) THEN 1 ELSE 0) + Base) % Base])

\* a * k for 0 <= k <= Base
BMulSmall(a, k) ==
    Go("BAdd", <<[i \in 1..Len(a) |-> (a[i] * k) % Base],
         <<0>> \o [i \in 1..Len(a) |-> (a[i] * k) \div Base]>>)

RECURSIVE BMulFrom(_, _, _)
BMulFrom(a, b, i) ==
    IF i > Len(b) THEN <<>>
    ELSE Go("BAdd",
            <<Go("BMulSmall", <<a, b[i]>>), <<0>> \o BMulFrom(a, b, i + 1)>>)

BMul(a, b) == BNorm(Go("BMulFrom", <<a, b, 1>>))

BIsEven(a) == a = <<>> \/ a[1] % 2 = 0

\* a * 2^k: whole limbs of zeros below, and every limb takes the high bits
\* of the limb below it.
BShl(a, k) ==
    LET lo == Pow2[(k % 15) + 1]
        hi == Pow2[16 - (k % 15)]
    IN  BNorm([i \in 1..(k \div 15) |-> 0] \o
              [i \in 1..(Len(a) + 1) |->
                  (Limb(a, i) % hi) * lo
                  + (IF i = 1 THEN 0 ELSE a[i - 1] \div hi)])

\* a div 2^k
BShr(a, k) ==
    LET lo == Pow2[(k % 15) + 1]
        hi == Pow2[16 - (k % 15)]
        w == k \div 15
    IN  BNorm([i \in 1..(Len(a) - w) |->
                  (a[i + w] \div lo) + (Limb(a, i + w + 1) % lo) * hi])

BitsOfLimb(n) == CHOOSE k \in 0..15 : n < Pow2[k + 1] /\ (k = 0 \/ n >= Pow2[k])

\* The number of bits of a (0 for 0).
BitLen(a) == IF a = <<>> THEN 0 ELSE 15 * (Len(a) - 1) + BitsOfLimb(a[Len(a)])

\* One limb of a quotient, r < q * Base, the top limb of q at least Base/2:
\* the guess from the top limbs is at most two too large.
QDigit(r, q) ==
    LET n == Len(q)
        guess == (Limb(r, n + 1) * Base + Limb(r, n)) \div q[n]
        top == IF guess > Base - 1 THEN Base - 1 ELSE guess
    IN  IF BCmp(Go("BMulSmall", <<q, top>>), r) <= 0 THEN top
        ELSE IF BCmp(Go("BMulSmall", <<q, top - 1>>), r) <= 0 THEN top - 1
        ELSE top - 2

\* One step of the long division: limb i of p joins the remainder, and the
\* next limb of the quotient comes out. st is the quotient so far and the
\* remainder.
DivStep(p, q, i, st) ==
    IF i < 1 THEN st
    ELSE LET cur == BNorm(<<p[i]>> \o st[2])
             d == Go("QDigit", <<cur, q>>)
         IN  <<<<d>> \o st[1],
               IF d = 0 THEN cur ELSE BSub(cur, Go("BMulSmall", <<q, d>>))>>

RECURSIVE BDivModFrom(_, _, _, _)
\* The long division from limb i of p down, four limbs at a time (the
\* tuple has the steps computed in this order).
BDivModFrom(p, q, i, st) ==
    IF i < 1 THEN st
    ELSE LET s1 == Go("DivStep", <<p, q, i, st>>)
             s2 == Go("DivStep", <<p, q, i - 1, s1>>)
             s3 == Go("DivStep", <<p, q, i - 2, s2>>)
             s4 == Go("DivStep", <<p, q, i - 3, s3>>)
             rest == BDivModFrom(p, q, i - 4, s4)
         IN  <<s1, s2, s3, s4, rest>>[5]

\* <<p div q, p mod q>> for q > 0
BDivMod(p, q) ==
    LET k == 15 - BitsOfLimb(q[Len(q)])
        pn == BShl(p, k)
        qn == BShl(q, k)
        first == Len(pn) - Len(qn) + 1
        r == Go("BDivModFrom", <<pn, qn, first,
                         <<<<>>, SubSeq(pn, first + 1, Len(pn))>>>>)
    IN  IF first < 1 THEN <<<<>>, p>>
        ELSE <<BNorm(r[1]), BShr(r[2], k)>>

MaxPow10 == 40

\* 10^k, from the powers below ten by halving the exponent.
RECURSIVE BPow10From(_)
BPow10From(k) ==
    IF k < 10 THEN BOfInt(10 ^ k)
    ELSE Go("BMul", <<BPow10From(k \div 2), BPow10From(k - k \div 2)>>)

\* The powers of ten 10^0 .. 10^MaxPow10
BPow10s == [k \in 1..(MaxPow10 + 1) |-> BPow10From(k - 1)]

BPow10(k) == BPow10s[k + 1]

BTimesPow10(a, k) == Go("BMul", <<a, Go("BPow10", <<k>>)>>)

\* The number of decimal digits of a (0 for 0): log10(2) is 1233/4096 to
\* the digits that matter here.
BDigits(a) ==
    LET t == (BitLen(a) * 1233) \div 4096
    IN  IF a = <<>> THEN 0
        ELSE IF BCmp(a, Go("BPow10", <<t>>)) >= 0 THEN t + 1 ELSE t

\* a as an integer of TLA+, for a below 2^31.
BToInt(a) ==
    IF a = <<>> THEN 0
    ELSE IF Len(a) = 1 THEN a[1]
    ELSE IF Len(a) = 2 THEN a[1] + Base * a[2]
    ELSE a[1] + Base * a[2] + Base * Base * a[3]

\* ----------------------------------------------------------------- float64

\* A float64: (-1)^neg * m * 2^e with m odd, or with m and e zero. The
\* mantissa has at most 53 bits; the exponent is not bounded (there are no
\* infinities and no subnormal numbers).
Float(neg, m, e) == [neg |-> neg, m |-> m, e |-> e]

\* The number of factors 2 of a > 0.
Twos(a) ==
    LET z == CHOOSE i \in 1..Len(a) : a[i] # 0 /\ \A j \in 1..(i - 1) : a[j] = 0
        t == CHOOSE k \in 0..14 : a[z] % Pow2[k + 1] = 0 /\ a[z] % Pow2[k + 2] # 0
    IN  15 * (z - 1) + t

FNormal(neg, m, e) ==
    IF m = <<>> THEN Float(neg, <<>>, 0)
    ELSE Float(neg, BShr(m, Twos(m)), e + Twos(m))

\* Bit i of a (bit 0 is the lowest).
BBit(a, i) == (Limb(a, (i \div 15) + 1) \div Pow2[(i % 15) + 1]) % 2 = 1

\* n, a number of more than 54 bits, cut to 53 bits and rounded to the
\* nearest, to the even one on a tie: up when the highest bit dropped is
\* set and a bit below it is, or the lowest bit kept is; exact says that
\* n is exact (no bits follow its own).
RoundBits(n, exact) ==
    LET drop == BitLen(n) - 53
        kept == BShr(n, drop)
        tie == exact /\ Twos(n) = drop - 1
        up == BBit(n, drop - 1) /\ (~tie \/ ~BIsEven(kept))
    IN  <<IF up THEN Go("BAdd", <<kept, <<1>>>>) ELSE kept, drop>>

\* The float64 nearest to p/q * 2^e, for q > 0.
FRound(neg, p, q, e) ==
    IF p = <<>> THEN Float(neg, <<>>, 0)
    ELSE LET s == 56 + BitLen(q) - BitLen(p)
             shift == IF s > 0 THEN s ELSE 0
             qr == IF q = <<1>> THEN <<BShl(p, shift), <<>>>>
                   ELSE Go("BDivMod", <<BShl(p, shift), q>>)
             rb == Go("RoundBits", <<qr[1], qr[2] = <<>>>>)
         IN  Go("FNormal", <<neg, rb[1], e - shift + rb[2]>>)

FZero == Float(FALSE, <<>>, 0)

FIsZero(f) == f.m = <<>>

IAbs(n) == IF n < 0 THEN 0 - n ELSE n

\* float64(n) of an integer, and the float64 nearest to n/d.
FOfInt(n) == Go("FRound", <<n < 0, BOfInt(IAbs(n)), <<1>>, 0>>)

FOfRat(n, d) == Go("FRound", <<n < 0, BOfInt(IAbs(n)), BOfInt(d), 0>>)

FNeg(f) == [f EXCEPT !.neg = ~@]

FMul(x, y) ==
    Go("FRound", <<x.neg # y.neg, Go("BMul", <<x.m, y.m>>), <<1>>, x.e + y.e>>)

\* x / y for y # 0
FDiv(x, y) == Go("FRound", <<x.neg # y.neg, x.m, y.m, x.e - y.e>>)

FAdd(x, y) ==
    IF FIsZero(x) THEN (IF FIsZero(y) THEN Float(x.neg /\ y.neg, <<>>, 0) ELSE y)
    ELSE IF FIsZero(y) THEN x
    ELSE LET e == IF x.e < y.e THEN x.e ELSE y.e
             a == BShl(x.m, x.e - e)
             b == BShl(y.m, y.e - e)
             c == BCmp(a, b)
         IN  IF x.neg = y.neg
             THEN Go("FRound", <<x.neg, Go("BAdd", <<a, b>>), <<1>>, e>>)
             ELSE IF c = 0 THEN FZero
             ELSE IF c > 0 THEN Go("FRound", <<x.neg, BSub(a, b), <<1>>, e>>)
             ELSE Go("FRound", <<y.neg, BSub(b, a), <<1>>, e>>)

FSub(x, y) == Go("FAdd", <<x, FNeg(y)>>)

\* f has no fractional part.
FIsWhole(f) == f.e >= 0

\* The magnitude of int64(f): the integer part of f.
FTruncBig(f) == IF f.e >= 0 THEN BShl(f.m, f.e) ELSE BShr(f.m, 0 - f.e)

\* ------------------------------------------------- the digits of a float64

\* The magnitude of f as a fraction.
FNum(f) == IF f.e >= 0 THEN BShl(f.m, f.e) ELSE f.m

FDen(f) == IF f.e >= 0 THEN <<1>> ELSE BShl(<<1>>, 0 - f.e)

\* The exponent of the first decimal digit of p/q > 0.
Exp10(p, q) ==
    LET d == Go("BDigits", <<p>>) - Go("BDigits", <<q>>)
    IN  IF d >= 0
        THEN IF BCmp(p, Go("BTimesPow10", <<q, d>>)) >= 0 THEN d ELSE d - 1
        ELSE IF BCmp(Go("BTimesPow10", <<p, 0 - d>>), q) >= 0 THEN d ELSE d - 1

\* The decimal c * 10^(-s) reads as f.
ReadsAs(c, s, f) ==
    IF s >= 0 THEN Go("FRound", <<f.neg, c, Go("BPow10", <<s>>), 0>>) = f
    ELSE Go("FRound", <<f.neg, Go("BTimesPow10", <<c, 0 - s>>), <<1>>, 0>>) = f

\* The decimal of n digits that reads as f # 0, the nearest to f if there
\* are two (the even one if they are as near), <<>> if there is none.
Digits(f, n) ==
    LET s == n - 1 - Go("Exp10", <<FNum(f), FDen(f)>>)
        num == IF s >= 0 THEN Go("BTimesPow10", <<FNum(f), s>>) ELSE FNum(f)
        den == IF s >= 0 THEN FDen(f) ELSE Go("BTimesPow10", <<FDen(f), 0 - s>>)
        qr == Go("BDivMod", <<num, den>>)
        lo == qr[1]
        hi == Go("BAdd", <<lo, <<1>>>>)
        half == BCmp(BShl(qr[2], 1), den)
        down == half < 0 \/ (half = 0 /\ BIsEven(lo))
    IN  IF qr[2] = <<>> THEN lo
        ELSE IF down /\ Go("ReadsAs", <<lo, s, f>>) THEN lo
        ELSE IF Go("ReadsAs", <<hi, s, f>>) THEN hi
        ELSE IF Go("ReadsAs", <<lo, s, f>>) THEN lo
        ELSE <<>>

\* strconv's shortest formatting (%v is %g with the smallest number of
\* digits that reads back as f): the digits, their number and the
\* exponent of the first, for f # 0. 17 digits tell a float64 from every
\* other.
Shortest(f) ==
    LET n == CHOOSE k \in 1..17 :
                 /\ Go("Digits", <<f, k>>) # <<>>
                 /\ k = 1 \/ Go("Digits", <<f, k - 1>>) = <<>>
        d == Go("Digits", <<f, n>>)
        e == Go("Exp10", <<FNum(f), FDen(f)>>)
    IN  IF d = Go("BPow10", <<n>>)
        THEN [digits |-> <<1>>, nd |-> 1, exp |-> e + 1]
        ELSE [digits |-> d, nd |-> n, exp |-> e]

\* -------------------------------------------------- int64 and time.Duration

\* An integer with its sign (zero has none). An int64 of the code wraps
\* around at 2^63; the values of the model stay far below.
Int64(neg, n) == [neg |-> neg /\ n # <<>>, n |-> n]

Int64Of(i) == Int64(i < 0, BOfInt(IAbs(i)))

Int64Add(x, y) ==
    IF x.neg = y.neg THEN Int64(x.neg, Go("BAdd", <<x.n, y.n>>))
    ELSE IF BCmp(x.n, y.n) >= 0 THEN Int64(x.neg, BSub(x.n, y.n))
    ELSE Int64(y.neg, BSub(y.n, x.n))

Int64Sub(x, y) == Go("Int64Add", <<x, Int64(~y.neg, y.n)>>)

\* Go's x / y and x % y for y # 0: the quotient is cut towards zero and the
\* remainder has the sign of x.
Int64Quo(x, y) == Int64(x.neg # y.neg, Go("BDivMod", <<x.n, y.n>>)[1])

Int64Rem(x, y) == Int64(x.neg, Go("BDivMod", <<x.n, y.n>>)[2])

\* float64(i)
Float64Of(i) == Go("FRound", <<i.neg, i.n, <<1>>, 0>>)

\* int64(f): the integer part of f.
Int64OfFloat(f) == Int64(f.neg, Go("FTruncBig", <<f>>))

\* f1 == f2 in Go: the two zeros are equal.
FEq(x, y) == (FIsZero(x) /\ FIsZero(y)) \/ x = y

\* time.Second, in nanoseconds.
Second == Go("Int64Of", <<1000 * 1000 * 1000>>)

\* time.Duration.Seconds(): float64(d / Second) + float64(d % Second) / 1e9
Seconds(d) ==
    Go("FAdd", <<Go("Float64Of", <<Go("Int64Quo", <<d, Second>>)>>),
         Go("FDiv",
            <<Go("Float64Of", <<Go("Int64Rem", <<d, Second>>)>>),
              Go("Float64Of", <<Second>>)>>)>>)

\* time.Duration(seconds * float64(time.Second)), lines 146 and 215
DurationOfSeconds(seconds) ==
    Go("Int64OfFloat", <<Go("FMul", <<seconds, Go("Float64Of", <<Second>>)>>)>>)

\* ------------------------------------------------------------------ inf.Dec

\* A decimal: (-1)^neg * n * 10^(-scale).
Dec(neg, n, scale) == [neg |-> neg /\ n # <<>>, n |-> n, scale |-> scale]

DecIsZero(x) == x.n = <<>>

Max(a, b) == IF a >= b THEN a ELSE b

\* The unscaled value of x at a scale that is not smaller than its own.
Unscaled(x, scale) == Int64(x.neg, Go("BTimesPow10", <<x.n, scale - x.scale>>))

\* inf.Dec.Add and Sub: exact, at the larger scale.
DecAdd(x, y) ==
    LET s == Max(x.scale, y.scale)
        sum == Go("Int64Add",
                  <<Go("Unscaled", <<x, s>>), Go("Unscaled", <<y, s>>)>>)
    IN  Dec(sum.neg, sum.n, s)

DecSub(x, y) == Go("DecAdd", <<x, Dec(~y.neg, y.n, y.scale)>>)

\* inf.Dec.Mul: exact, the scales add up.
DecMul(x, y) == Dec(x.neg # y.neg, Go("BMul", <<x.n, y.n>>), x.scale + y.scale)

\* inf.Dec.QuoRound(x, y, scale, inf.RoundDown): the quotient cut off after
\* scale decimals.
QuoRoundDown(x, y, scale) ==
    LET k == y.scale + scale - x.scale
    IN  IF k >= 0
        THEN Dec(x.neg # y.neg,
                 Go("BDivMod", <<Go("BTimesPow10", <<x.n, k>>), y.n>>)[1], scale)
        ELSE Dec(x.neg # y.neg,
                 Go("BDivMod",
                    <<x.n, Go("BTimesPow10", <<y.n, 0 - k>>)>>)[1], scale)

\* inf.Dec.Round(x, scale, inf.RoundUp): x at this scale, away from zero.
DecRoundUp(x, scale) ==
    IF x.scale <= scale
    THEN Dec(x.neg, Go("BTimesPow10", <<x.n, scale - x.scale>>), scale)
    ELSE LET qr == Go("BDivMod", <<x.n, Go("BPow10", <<x.scale - scale>>)>>)
         IN  Dec(x.neg,
                 IF qr[2] = <<>> THEN qr[1] ELSE Go("BAdd", <<qr[1], <<1>>>>),
                 scale)

\* x has no fractional part.
DecIsWhole(x) ==
    x.scale <= 0 \/ Go("BDivMod", <<x.n, Go("BPow10", <<x.scale>>)>>)[2] = <<>>

\* The magnitude of x is below that of the integer k.
DecBelow(x, k) ==
    IF x.scale >= 0 THEN BCmp(x.n, Go("BTimesPow10", <<BOfInt(k), x.scale>>)) < 0
    ELSE BCmp(Go("BTimesPow10", <<x.n, 0 - x.scale>>), BOfInt(k)) < 0

\* The number of factors ten of n > 0.
TenFactors(n) ==
    CHOOSE k \in 0..(MaxPow10 - 1) :
        /\ Go("BDivMod", <<n, Go("BPow10", <<k>>)>>)[2] = <<>>
        /\ Go("BDivMod", <<n, Go("BPow10", <<k + 1>>)>>)[2] # <<>>

\* ----------------------------------------------------- quantities as strings

\* The string of a quantity: the sign, the digits before and after the
\* point as one number, how many they are, how many of them follow the
\* point, and the suffix by what it stands for, a power of ten or of two
\* and a format ("" stands for 10^0 in DecimalSI, "Ki" for 2^10 in
\* BinarySI, "e3" for 10^3 in DecimalExponent).
QuantityText(neg, digits, len, decimals, base, exponent, format) ==
    [neg |-> neg, digits |-> digits, len |-> len, decimals |-> decimals,
     base |-> base, exponent |-> exponent, format |-> format]

\* "0"
ZeroText == QuantityText(FALSE, <<>>, 1, 0, 10, 0, "DecimalSI")

\* fmt.Sprintf("%v", f), lines 130 and 190: the shortest digits, as %e
\* ("1.5e+06") when the exponent is below -4 or at least 6, as %f
\* otherwise.
FloatText(f) ==
    IF FIsZero(f) THEN QuantityText(f.neg, <<>>, 1, 0, 10, 0, "DecimalSI")
    ELSE LET s == Go("Shortest", <<f>>)
         IN  IF s.exp < 0 - 4 \/ s.exp >= 6
             THEN QuantityText(f.neg, s.digits, s.nd, s.nd - 1, 10, s.exp,
                               "DecimalExponent")
             ELSE IF s.exp < 0
             THEN QuantityText(f.neg, s.digits, s.nd - s.exp, s.nd - s.exp - 1,
                               10, 0, "DecimalSI")
             ELSE IF s.nd <= s.exp + 1
             THEN QuantityText(f.neg,
                               Go("BTimesPow10", <<s.digits, s.exp + 1 - s.nd>>),
                               s.exp + 1, 0, 10, 0, "DecimalSI")
             ELSE QuantityText(f.neg, s.digits, s.nd, s.nd - s.exp - 1, 10, 0,
                               "DecimalSI")

\* The operands: the tag and the value, a float64 for a Scalar, the
\* nanoseconds for a Duration, the decimal for a Quantity, with its format.
Operand(tag, val, format) == [tag |-> tag, val |-> val, format |-> format]

NilValue == [nil |-> TRUE]

NilOperand == Operand("nil", NilValue, "")

ScalarOf(f) == Operand("Scalar", f, "")

QuantityOf(dec, format) == Operand("Quantity", dec, format)

DurationOf(ns) == Operand("Duration", ns, "")

\* resource.ParseQuantity of a string that is a quantity: "0" is the zero
\* of DecimalSI; a number of at most 18 digits with a decimal suffix, not
\* finer than nano, is kept as it is written, and so is a whole number
\* with a binary suffix that leaves it some 15 digits; any other is
\* rounded up to nano.
ParseQuantity(t) ==
    LET scale == t.exponent - t.decimals
        amount == IF t.base = 10
                  THEN Dec(t.neg, t.digits, t.decimals - t.exponent)
                  ELSE Dec(t.neg, BShl(t.digits, t.exponent), t.decimals)
        rounded == IF DecIsZero(amount) THEN amount
                   ELSE Go("DecRoundUp", <<amount, 9>>)
    IN  IF t = ZeroText THEN QuantityOf(Dec(FALSE, <<>>, 0), "DecimalSI")
        ELSE IF t.base = 10 /\ t.len <= 18 /\ scale >= 0 - 9
        THEN QuantityOf(Dec(t.neg, t.digits, 0 - scale), t.format)
        ELSE IF /\ t.base = 2 /\ t.decimals = 0
                /\ 15 - t.len - (t.exponent * 3) \div 10 - 1 >= 0
        THEN QuantityOf(amount, t.format)
        ELSE IF t.base = 2 /\ ~DecIsZero(rounded) /\ Go("DecBelow", <<rounded, 1>>)
        THEN QuantityOf(rounded, "DecimalSI")
        ELSE QuantityOf(rounded, t.format)

\* resource.ParseQuantity(fmt.Sprintf("%v", f)) for the float64 of a
\* Scalar, lines 130 and 190.
QuantityOfScalar(f) == Go("ParseQuantity", <<Go("FloatText", <<f>>)>>)

\* The exponents of ten that have a suffix: n, u, m, "", k, M, G, T, P, E.
DecimalSuffixes == {e \in (0 - 9)..18 : e % 3 = 0}

\* Quantity.String() of a decimal, the string in its canonical form: no
\* factor ten is left in the digits but what makes the exponent a
\* multiple of three. An exponent without a suffix gives the digits alone.
DecimalString(x, format) ==
    LET t == Go("TenFactors", <<x.n>>)
        e == t - x.scale
        digits == Go("BTimesPow10",
                     <<Go("BDivMod", <<x.n, Go("BPow10", <<t>>)>>)[1], e % 3>>)
        exponent == e - (e % 3)
    IN  IF format = "DecimalExponent" /\ exponent # 0
        THEN QuantityText(x.neg, digits, Go("BDigits", <<digits>>), 0, 10, exponent,
                          "DecimalExponent")
        ELSE IF format = "DecimalSI" /\ exponent \in DecimalSuffixes
        THEN QuantityText(x.neg, digits, Go("BDigits", <<digits>>), 0, 10, exponent,
                          "DecimalSI")
        ELSE QuantityText(x.neg, digits, Go("BDigits", <<digits>>), 0, 10, 0,
                          "DecimalSI")

\* The powers of 1024 that have a suffix: Ki, Mi, Gi, Ti, Pi, Ei.
BinarySuffixes == 1..6

\* Quantity.String() of a whole number in BinarySI: every factor 1024 goes
\* to the suffix; without one the digits stand alone.
BinaryString(x) ==
    LET n == IF x.scale >= 0
             THEN Go("BDivMod", <<x.n, Go("BPow10", <<x.scale>>)>>)[1]
             ELSE Go("BTimesPow10", <<x.n, 0 - x.scale>>)
        k == Twos(n) \div 10
        digits == BShr(n, 10 * k)
    IN  IF k \in BinarySuffixes
        THEN QuantityText(x.neg, digits, Go("BDigits", <<digits>>), 0, 2, 10 * k,
                          "BinarySI")
        ELSE QuantityText(x.neg, digits, Go("BDigits", <<digits>>), 0, 10, 0,
                          "DecimalSI")

\* Quantity.String(), lines 65, 93, 136, 197 and 258: a quantity in
\* BinarySI that is below 1024 or is not whole is written as in DecimalSI.
QuantityString(q) ==
    IF DecIsZero(q.val) THEN ZeroText
    ELSE IF /\ q.format = "BinarySI"
            /\ ~Go("DecBelow", <<q.val, 1024>>)
            /\ Go("DecIsWhole", <<q.val>>)
    THEN Go("BinaryString", <<q.val>>)
    ELSE IF q.format = "BinarySI" THEN Go("DecimalString", <<q.val, "DecimalSI">>)
    ELSE Go("DecimalString", <<q.val, q.format>>)

\* math.Pow10(k): a power of ten of the table, 1e0 .. 1e31, and for a
\* negative k one divided by it.
FPow10(k) ==
    IF k >= 0 THEN Go("FRound", <<FALSE, Go("BPow10", <<k>>), <<1>>, 0>>)
    ELSE Go("FDiv",
            <<Go("FOfInt", <<1>>),
              Go("FRound", <<FALSE, Go("BPow10", <<0 - k>>), <<1>>, 0>>)>>)

\* resource.Quantity.AsApproximateFloat64(), lines 180, 184, 245 and 246:
\* the unscaled value as a float64, times the power of ten.
AsApproximateFloat64(q) ==
    IF q.val.scale = 0 THEN Go("FRound", <<q.val.neg, q.val.n, <<1>>, 0>>)
    ELSE Go("FMul",
            <<Go("FRound", <<q.val.neg, q.val.n, <<1>>, 0>>),
              Go("FPow10", <<0 - q.val.scale>>)>>)

\* formatError(kind, function, ...): the kind of the error.
TypeMismatch == "TypeMismatch"
ZeroDivision == "ZeroDivision"
NonIntModulo == "NonIntModulo"
GenericError == "GenericError"

\* (nil, err)
Failure(err) == [err |-> err, tag |-> "nil", val |-> NilValue]

\* (value, nil): a float64 for a Scalar, the String() of a Quantity or of a
\* Duration (a duration by its nanoseconds).
Result(tag, val) == [err |-> "", tag |-> tag, val |-> val]

\* resource.Quantity.Add and Sub take the format of the argument when the
\* receiver is zero.
FormatAfter(op1, v) == IF DecIsZero(op1.val) THEN v.format ELSE op1.format

\* Add, but a Scalar added to a Quantity is taken as a Quantity.
Add_ScalarAsQuantity(op1, op2) ==
    IF op1.tag = "Quantity"
    THEN IF op2.tag = "Quantity"
         THEN Result("Quantity",
                     Go("QuantityString",
                        <<QuantityOf(Go("DecAdd", <<op1.val, op2.val>>),
                                               FormatAfter(op1, op2))>>))
         ELSE IF op2.tag = "Scalar"
         THEN Result("Quantity",
                     Go("QuantityString", <<QuantityOf(
                         Go("DecAdd",
                            <<op1.val, Go("QuantityOfScalar", <<op2.val>>).val>>),
                         op1.format)>>))
         ELSE Failure(TypeMismatch)
    ELSE IF op1.tag = "Duration"
    THEN IF op2.tag = "Duration"
         THEN Result("Duration", Go("Int64Add", <<op1.val, op2.val>>))
         ELSE Failure(TypeMismatch)
    ELSE IF op2.tag = "Scalar"
         THEN Result("Scalar", Go("FAdd", <<op1.val, op2.val>>))
         ELSE Failure(TypeMismatch)

\* Quantity.Add, Duration.Add, Scalar.Add (lines 61-87)
Add(op1, op2) ==
    IF op1.tag = "Quantity"
    THEN IF op2.tag = "Quantity"
         THEN Result("Quantity",
                     Go("QuantityString",
                        <<QuantityOf(Go("DecAdd", <<op1.val, op2.val>>),
                                               FormatAfter(op1, op2))>>))
         ELSE Failure(TypeMismatch)
    ELSE IF op1.tag = "Duration"
    THEN IF op2.tag = "Duration"
         THEN Result("Duration", Go("Int64Add", <<op1.val, op2.val>>))
         ELSE Failure(TypeMismatch)
    ELSE IF op2.tag = "Scalar"
         THEN Result("Scalar", Go("FAdd", <<op1.val, op2.val>>))
         ELSE Failure(TypeMismatch)

\* Quantity.Subtract, Duration.Subtract, Scalar.Subtract (lines 89-115)
Subtract(op1, op2) ==
    IF op1.tag = "Quantity"
    THEN IF op2.tag = "Quantity"
         THEN Result("Quantity",
                     Go("QuantityString",
                        <<QuantityOf(Go("DecSub", <<op1.val, op2.val>>),
                                               FormatAfter(op1, op2))>>))
         ELSE Failure(TypeMismatch)
    ELSE IF op1.tag = "Duration"
    THEN IF op2.tag = "Duration"
         THEN Result("Duration", Go("Int64Sub", <<op1.val, op2.val>>))
         ELSE Failure(TypeMismatch)
    ELSE IF op2.tag = "Scalar"
         THEN Result("Scalar", Go("FSub", <<op1.val, op2.val>>))
         ELSE Failure(TypeMismatch)

\* Quantity.Multiply, but the product is given in the decimal format.
QuantityMultiply_DecimalFormat(op1, op2) ==
    IF op2.tag = "Scalar"
    THEN Result("Quantity",
                Go("QuantityString", <<QuantityOf(
                    Go("DecMul",
                       <<op1.val, Go("QuantityOfScalar", <<op2.val>>).val>>),
                    "DecimalSI")>>))
    ELSE Failure(TypeMismatch)

\* Quantity.Multiply (lines 127-140)
QuantityMultiply(op1, op2) ==
    IF op2.tag = "Scalar"
    THEN Result("Quantity",
                Go("QuantityString", <<QuantityOf(
                    Go("DecMul",
                       <<op1.val, Go("QuantityOfScalar", <<op2.val>>).val>>),
                    op1.format)>>))
    ELSE Failure(TypeMismatch)

\* Duration.Multiply (lines 142-150): the seconds times the Scalar, times
\* a second, cut to whole nanoseconds.
DurationMultiply(op1, op2) ==
    IF op2.tag = "Scalar"
    THEN Result("Duration",
                Go("DurationOfSeconds",
                   <<Go("FMul", <<Go("Seconds", <<op1.val>>), op2.val>>)>>))
    ELSE Failure(TypeMismatch)

\* Quantity.Multiply, Duration.Multiply, Scalar.Multiply (lines 127-163)
Multiply(op1, op2) ==
    IF op1.tag = "Quantity" THEN Go("QuantityMultiply", <<op1, op2>>)
    ELSE IF op1.tag = "Duration" THEN Go("DurationMultiply", <<op1, op2>>)
    ELSE IF op2.tag = "Scalar"
    THEN Result("Scalar", Go("FMul", <<op1.val, op2.val>>))
    ELSE IF op2.tag = "Quantity" THEN Go("QuantityMultiply", <<op2, op1>>)
    ELSE IF op2.tag = "Duration" THEN Go("DurationMultiply", <<op2, op1>>)
    ELSE Failure(TypeMismatch)

\* Quantity / Quantity, lines 179-185
QuantityByQuantity(op1, v) ==
    IF FIsZero(Go("AsApproximateFloat64", <<v>>)) THEN Failure(ZeroDivision)
    ELSE Result("Scalar",
                Go("FDiv",
                   <<Go("AsApproximateFloat64", <<op1>>),
                     Go("AsApproximateFloat64", <<v>>)>>))

\* Quantity / Scalar, lines 186-197
QuantityByScalar(op1, v) ==
    IF FIsZero(v.val) THEN Failure(ZeroDivision)
    ELSE LET q == Go("QuantityOfScalar", <<v.val>>)
         IN  Result("Quantity",
                    Go("QuantityString", <<QuantityOf(
                        Go("QuoRoundDown",
                           <<op1.val, q.val, Max(op1.val.scale, q.val.scale)>>),
                        op1.format)>>))

\* Duration / Scalar, lines 210-215
DurationByScalar(op1, v) ==
    IF FIsZero(v.val) THEN Failure(ZeroDivision)
    ELSE Result("Duration",
                Go("DurationOfSeconds",
                   <<Go("FDiv", <<Go("Seconds", <<op1.val>>), v.val>>)>>))

\* Scalar / Scalar, lines 223-227
ScalarByScalar(op1, v) ==
    IF FIsZero(v.val) THEN Failure(ZeroDivision)
    ELSE Result("Scalar", Go("FDiv", <<op1.val, v.val>>))

\* Divide, but defined for operands of the same tag only.
Divide_SameTagOnly(op1, op2) ==
    IF op1.tag # op2.tag THEN Failure(TypeMismatch)
    ELSE IF op1.tag = "Quantity" THEN Go("QuantityByQuantity", <<op1, op2>>)
    ELSE IF op1.tag = "Duration"
    THEN IF FIsZero(Go("Seconds", <<op2.val>>)) THEN Failure(ZeroDivision)
         ELSE Result("Scalar",
                     Go("FDiv",
                        <<Go("Seconds", <<op1.val>>), Go("Seconds", <<op2.val>>)>>))
    ELSE Go("ScalarByScalar", <<op1, op2>>)

\* Divide, but a Duration is divided by a Duration unchecked; the float64
\* division by zero gives an infinity or a NaN (here 0).
Divide_DurationUnchecked(op1, op2) ==
    IF op1.tag = "Quantity"
    THEN IF op2.tag = "Quantity" THEN Go("QuantityByQuantity", <<op1, op2>>)
         ELSE IF op2.tag = "Scalar" THEN Go("QuantityByScalar", <<op1, op2>>)
         ELSE Failure(TypeMismatch)
    ELSE IF op1.tag = "Duration"
    THEN IF op2.tag = "Duration"
         THEN IF FIsZero(Go("Seconds", <<op2.val>>)) THEN Result("Scalar", FZero)
              ELSE Result("Scalar",
                          Go("FDiv",
                             <<Go("Seconds", <<op1.val>>),
                               Go("Seconds", <<op2.val>>)>>))
         ELSE IF op2.tag = "Scalar" THEN Go("DurationByScalar", <<op1, op2>>)
         ELSE Failure(TypeMismatch)
    ELSE IF op2.tag = "Scalar" THEN Go("ScalarByScalar", <<op1, op2>>)
         ELSE Failure(TypeMismatch)

\* Quantity.Divide, Duration.Divide, Scalar.Divide (lines 177-231)
Divide(op1, op2) ==
    IF op1.tag = "Quantity"
    THEN IF op2.tag = "Quantity" THEN Go("QuantityByQuantity", <<op1, op2>>)
         ELSE IF op2.tag = "Scalar" THEN Go("QuantityByScalar", <<op1, op2>>)
         ELSE Failure(TypeMismatch)
    ELSE IF op1.tag = "Duration"
    THEN IF op2.tag = "Duration"
         THEN IF FIsZero(Go("Seconds", <<op2.val>>)) THEN Failure(ZeroDivision)
              ELSE Result("Scalar",
                          Go("FDiv",
                             <<Go("Seconds", <<op1.val>>),
                               Go("Seconds", <<op2.val>>)>>))
         ELSE IF op2.tag = "Scalar" THEN Go("DurationByScalar", <<op1, op2>>)
         ELSE Failure(TypeMismatch)
    ELSE IF op2.tag = "Scalar" THEN Go("ScalarByScalar", <<op1, op2>>)
         ELSE Failure(TypeMismatch)

\* The remainder under the tag of the operands: float64(val1 % val2), or
\* resource.NewQuantity(i1%i2, format).String().
Remainder(i1, i2, tag, format) ==
    IF tag = "Scalar"
    THEN Result("Scalar", Go("Float64Of", <<Go("Int64Rem", <<i1, i2>>)>>))
    ELSE Result("Quantity",
                Go("QuantityString", <<QuantityOf(
                    Dec(Go("Int64Rem", <<i1, i2>>).neg,
                        Go("Int64Rem", <<i1, i2>>).n, 0), format)>>))

\* IntegralModulo, but the divisor is cut to an integer unchecked.
IntegralModulo_DivisorUnchecked(f1, f2, tag, format) ==
    IF ~FEq(f1, Go("Float64Of", <<Go("Int64OfFloat", <<f1>>)>>))
    THEN Failure(NonIntModulo)
    ELSE IF Go("Int64OfFloat", <<f2>>).n = <<>> THEN Failure(ZeroDivision)
    ELSE Go("Remainder",
            <<Go("Int64OfFloat", <<f1>>), Go("Int64OfFloat", <<f2>>), tag, format>>)

\* Quantity.Modulo and Scalar.Modulo (lines 247-258, 279-290) on the
\* float64 of the operands: both are checked to be integral before the
\* divisor is checked to be zero.
IntegralModulo(f1, f2, tag, format) ==
    IF ~FEq(f1, Go("Float64Of", <<Go("Int64OfFloat", <<f1>>)>>))
    THEN Failure(NonIntModulo)
    ELSE IF ~FEq(f2, Go("Float64Of", <<Go("Int64OfFloat", <<f2>>)>>))
    THEN Failure(NonIntModulo)
    ELSE IF Go("Int64OfFloat", <<f2>>).n = <<>> THEN Failure(ZeroDivision)
    ELSE Go("Remainder",
            <<Go("Int64OfFloat", <<f1>>), Go("Int64OfFloat", <<f2>>), tag, format>>)

\* Quantity.Modulo, Duration.Modulo, Scalar.Modulo (lines 242-294)
Modulo(op1, op2) ==
    IF op1.tag = "Quantity"
    THEN IF op2.tag = "Quantity"
         THEN Go("IntegralModulo",
                 <<Go("AsApproximateFloat64", <<op1>>),
                   Go("AsApproximateFloat64", <<op2>>),
                             "Quantity", op1.format>>)
         ELSE Failure(TypeMismatch)
    ELSE IF op1.tag = "Duration"
    THEN IF op2.tag = "Duration"
         THEN IF op2.val.n = <<>> THEN Failure(ZeroDivision)
              ELSE Result("Duration", Go("Int64Rem", <<op1.val, op2.val>>))
         ELSE Failure(TypeMismatch)
    ELSE IF op2.tag = "Scalar"
         THEN Go("IntegralModulo", <<op1.val, op2.val, "Scalar", "">>)
         ELSE Failure(TypeMismatch)

\* A string: its letters, the quantity it spells and the duration it
\* spells, each if there is one (the string of a result has no letters
\* here).
Text(letters, quantity, duration) ==
    [letters |-> letters, quantity |-> quantity, duration |-> duration]

NoText == Text("", <<>>, <<>>)

\* The arguments of a call: a JSON number, a string, or a value of another
\* type.
Argument(kind, num, text) == [kind |-> kind, num |-> num, text |-> text]

Number(n, d) == Argument("number", Go("FOfRat", <<n, d>>), NoText)

\* A string that is a number with a suffix of the decimal format or of
\* the binary one.
Decimal(letters, digits, decimals, exponent) ==
    Argument("string", FZero,
             Text(letters,
                  <<QuantityText(FALSE, BOfInt(digits),
                                 Go("BDigits", <<BOfInt(digits)>>),
                                 decimals, 10, exponent, "DecimalSI")>>,
                  <<>>))

Binary(letters, digits, exponent) ==
    Argument("string", FZero,
             Text(letters,
                  <<QuantityText(FALSE, BOfInt(digits),
                                 Go("BDigits", <<BOfInt(digits)>>),
                                 0, 2, exponent, "BinarySI")>>,
                  <<>>))

Nanoseconds(letters, ns) ==
    Argument("string", FZero, Text(letters, <<>>, <<Go("Int64Of", <<ns>>)>>))

NumberArgs ==
    {Go("Number", <<0 - 7, 1>>), Go("Number", <<0, 1>>), Go("Number", <<2, 1>>),
     Go("Number", <<3, 1>>), Go("Number", <<7, 1>>), Go("Number", <<3, 2>>),
     Go("Number", <<15, 2>>), Go("Number", <<3, 8>>), Go("Number", <<1, 5>>)}

\* "0" is a quantity and a duration.
StringArgs ==
    {Argument("string", FZero, Text("0", <<ZeroText>>, <<Go("Int64Of", <<0>>)>>)),
     Go("Decimal", <<"3", 3, 0, 0>>),
     Go("Decimal", <<"7", 7, 0, 0>>),
     Go("Decimal", <<"1.5", 15, 1, 0>>),
     Go("Binary", <<"2Ki", 2, 10>>),
     Go("Nanoseconds", <<"0s", 0>>),
     Go("Nanoseconds", <<"2ns", 2>>),
     Go("Nanoseconds", <<"7ns", 7>>),
     Go("Nanoseconds", <<"15ns", 15>>),
     Argument("string", FZero, Text("abc", <<>>, <<>>))}

OtherArgs ==
    {Argument("bool", FZero, Text("true", <<>>, <<>>)),
     Argument("null", FZero, Text("null", <<>>, <<>>))}

Arguments == NumberArgs \cup StringArgs \cup OtherArgs

\* ParseOperand, but a string is tried as a duration first.
ParseOperand_DurationFirst(a) ==
    IF a.kind = "number" THEN ScalarOf(a.num)
    ELSE IF a.kind = "string"
    THEN IF a.text.duration # <<>> THEN DurationOf(a.text.duration[1])
         ELSE IF a.text.quantity # <<>>
         THEN Go("ParseQuantity", <<a.text.quantity[1]>>)
         ELSE NilOperand
    ELSE NilOperand

\* ParseArithemticOperands, lines 36-46: the operand of one argument, or
\* nil.
ParseOperand(a) ==
    IF a.kind = "number" THEN ScalarOf(a.num)
    ELSE IF a.kind = "string"
    THEN IF a.text.quantity # <<>> THEN Go("ParseQuantity", <<a.text.quantity[1]>>)
         ELSE IF a.text.duration # <<>> THEN DurationOf(a.text.duration[1])
         ELSE NilOperand
    ELSE NilOperand

\* The functions of the arithmetic.
Operators == {"add", "subtract", "multiply", "divide", "modulo"}

\* jpAdd, jpSubtract, jpMultiply, jpDivide, jpModulo (functions.go lines
\* 775-840): parse both arguments, then apply the method of the first
\* operand to the second.
Arithmetic(operator, a1, a2) ==
    LET op1 == Go("ParseOperand", <<a1>>)
        op2 == Go("ParseOperand", <<a2>>)
    IN  IF op1 = NilOperand \/ op2 = NilOperand THEN Failure(GenericError)
        ELSE IF operator = "add" THEN Go("Add", <<op1, op2>>)
        ELSE IF operator = "subtract" THEN Go("Subtract", <<op1, op2>>)
        ELSE IF operator = "multiply" THEN Go("Multiply", <<op1, op2>>)
        ELSE IF operator = "divide" THEN Go("Divide", <<op1, op2>>)
        ELSE Go("Modulo", <<op1, op2>>)

\* Longest list given to sum.
MaxItems == 3

\* The value a function returns, as an argument of the next call: a
\* float64 for a Scalar, the string of a Quantity or of a Duration. "0" is
\* a duration too; no string of a Duration is a quantity.
AsArgument(r) ==
    IF r.tag = "Scalar" THEN Argument("number", r.val, NoText)
    ELSE IF r.tag = "Quantity"
    THEN Argument("string", FZero,
                  Text("", <<r.val>>,
                       IF r.val = ZeroText THEN <<Go("Int64Of", <<0>>)>> ELSE <<>>))
    ELSE Argument("string", FZero, Text("", <<>>, <<r.val>>))

\* The elements of the lists given to sum.
SumItems ==
    {a \in Go("Arguments", <<>>) :
        \/ a \in {Go("Number", <<2, 1>>), Go("Number", <<3, 2>>)}
        \/ a.kind = "string" /\ a.text.letters \in {"0", "3", "2Ki", "2ns", "abc"}
        \/ a.kind = "bool"}

\* The lists of at most n elements.
ItemLists(n) == UNION {[1..k -> Go("SumItems", <<>>)] : k \in 0..n}

\* What sum returns: an error, or a value.
SumFailure(err) ==
    [err |-> err, value |-> Argument("null", FZero, Text("null", <<>>, <<>>))]

SumResult(value) == [err |-> "", value |-> value]

\* jpSum, lines 796-803: the loop over items[1:].
RECURSIVE SumFold(_, _)
SumFold(result, rest) ==
    IF rest = <<>> THEN SumResult(result)
    ELSE LET r == Go("Arithmetic", <<"add", result, Head(rest)>>)
         IN  IF r.err # "" THEN SumFailure(r.err)
             ELSE SumFold(Go("AsArgument", <<r>>), Tail(rest))

\* jpSum (functions.go lines 787-804); the argument is a list or not.
jpSum(isList, items) ==
    IF ~isList THEN SumFailure(TypeMismatch)
    ELSE IF Len(items) = 0 THEN SumFailure(GenericError)
    ELSE Go("SumFold", <<items[1], Tail(items)>>)

\* The operator of a name, applied to a tuple of arguments. The tuple is
\* evaluated first (its length is never negative).
Go(op, x) ==
    CASE Len(x) < 0 -> x
      [] op = "BAdd" -> BAdd(x[1], x[2])
      [] op = "BMulSmall" -> BMulSmall(x[1], x[2])
      [] op = "BMulFrom" -> BMulFrom(x[1], x[2], x[3])
      [] op = "BMul" -> BMul(x[1], x[2])
      [] op = "QDigit" -> QDigit(x[1], x[2])
      [] op = "DivStep" -> DivStep(x[1], x[2], x[3], x[4])
      [] op = "BDivModFrom" -> BDivModFrom(x[1], x[2], x[3], x[4])
      [] op = "BDivMod" -> BDivMod(x[1], x[2])
      [] op = "BPow10" -> BPow10(x[1])
      [] op = "BTimesPow10" -> BTimesPow10(x[1], x[2])
      [] op = "BDigits" -> BDigits(x[1])
      [] op = "FNormal" -> FNormal(x[1], x[2], x[3])
      [] op = "RoundBits" -> RoundBits(x[1], x[2])
      [] op = "FRound" -> FRound(x[1], x[2], x[3], x[4])
      [] op = "FOfInt" -> FOfInt(x[1])
      [] op = "FOfRat" -> FOfRat(x[1], x[2])
      [] op = "FMul" -> FMul(x[1], x[2])
      [] op = "FDiv" -> FDiv(x[1], x[2])
      [] op = "FAdd" -> FAdd(x[1], x[2])
      [] op = "FSub" -> FSub(x[1], x[2])
      [] op = "FTruncBig" -> FTruncBig(x[1])
      [] op = "Exp10" -> Exp10(x[1], x[2])
      [] op = "ReadsAs" -> ReadsAs(x[1], x[2], x[3])
      [] op = "Digits" -> Digits(x[1], x[2])
      [] op = "Shortest" -> Shortest(x[1])
      [] op = "Int64Of" -> Int64Of(x[1])
      [] op = "Int64Add" -> Int64Add(x[1], x[2])
      [] op = "Int64Sub" -> Int64Sub(x[1], x[2])
      [] op = "Int64Quo" -> Int64Quo(x[1], x[2])
      [] op = "Int64Rem" -> Int64Rem(x[1], x[2])
      [] op = "Float64Of" -> Float64Of(x[1])
      [] op = "Int64OfFloat" -> Int64OfFloat(x[1])
      [] op = "Seconds" -> Seconds(x[1])
      [] op = "DurationOfSeconds" -> DurationOfSeconds(x[1])
      [] op = "Unscaled" -> Unscaled(x[1], x[2])
      [] op = "DecAdd" -> DecAdd(x[1], x[2])
      [] op = "DecSub" -> DecSub(x[1], x[2])
      [] op = "DecMul" -> DecMul(x[1], x[2])
      [] op = "QuoRoundDown" -> QuoRoundDown(x[1], x[2], x[3])
      [] op = "DecRoundUp" -> DecRoundUp(x[1], x[2])
      [] op = "DecIsWhole" -> DecIsWhole(x[1])
      [] op = "DecBelow" -> DecBelow(x[1], x[2])
      [] op = "TenFactors" -> TenFactors(x[1])
      [] op = "FloatText" -> FloatText(x[1])
      [] op = "ParseQuantity" -> ParseQuantity(x[1])
      [] op = "QuantityOfScalar" -> QuantityOfScalar(x[1])
      [] op = "DecimalString" -> DecimalString(x[1], x[2])
      [] op = "BinaryString" -> BinaryString(x[1])
      [] op = "QuantityString" -> QuantityString(x[1])
      [] op = "FPow10" -> FPow10(x[1])
      [] op = "AsApproximateFloat64" -> AsApproximateFloat64(x[1])
      [] op = "Add" -> Add(x[1], x[2])
      [] op = "Subtract" -> Subtract(x[1], x[2])
      [] op = "QuantityMultiply" -> QuantityMultiply(x[1], x[2])
      [] op = "DurationMultiply" -> DurationMultiply(x[1], x[2])
      [] op = "Multiply" -> Multiply(x[1], x[2])
      [] op = "QuantityByQuantity" -> QuantityByQuantity(x[1], x[2])
      [] op = "QuantityByScalar" -> QuantityByScalar(x[1], x[2])
      [] op = "DurationByScalar" -> DurationByScalar(x[1], x[2])
      [] op = "ScalarByScalar" -> ScalarByScalar(x[1], x[2])
      [] op = "Divide" -> Divide(x[1], x[2])
      [] op = "Remainder" -> Remainder(x[1], x[2], x[3], x[4])
      [] op = "IntegralModulo" -> IntegralModulo(x[1], x[2], x[3], x[4])
      [] op = "Modulo" -> Modulo(x[1], x[2])
      [] op = "Number" -> Number(x[1], x[2])
      [] op = "Decimal" -> Decimal(x[1], x[2], x[3], x[4])
      [] op = "Binary" -> Binary(x[1], x[2], x[3])
      [] op = "Nanoseconds" -> Nanoseconds(x[1], x[2])
      [] op = "Arguments" -> Arguments
      [] op = "ParseOperand" -> ParseOperand(x[1])
      [] op = "Arithmetic" -> Arithmetic(x[1], x[2], x[3])
      [] op = "AsArgument" -> AsArgument(x[1])
      [] op = "SumItems" -> SumItems
      [] op = "ItemLists" -> ItemLists(x[1])
      [] op = "SumFold" -> SumFold(x[1], x[2])
      [] op = "jpSum" -> jpSum(x[1], x[2])

\* -------------------------------------------------------------------- items

\* Most keys of an object, and most elements of an array, given to items.
MaxKeys == 3

\* JSON values: a number n is <<0, n>>, a string is <<1>> followed by its
\* bytes.
Num(n) == <<0, n>>

Str(bytes) == <<1>> \o bytes

\* The keys: "B", "a", "ab", "b" as bytes.
Keys == {<<66>>, <<97>>, <<97, 98>>, <<98>>}

\* The values of an object and the elements of an array.
Values == {Num(1), Num(2)}

\* s < t for strings, as Go compares them: byte by byte, a proper prefix
\* first.
RECURSIVE Less(_, _)
Less(s, t) ==
    IF t = <<>> THEN FALSE
    ELSE IF s = <<>> THEN TRUE
    ELSE IF Head(s) # Head(t) THEN Head(s) < Head(t)
    ELSE Less(Tail(s), Tail(t))

\* One step of sorting: key k put in its place in a sorted sequence.
RECURSIVE Insert(_, _)
Insert(k, sorted) ==
    IF sorted = <<>> THEN <<k>>
    ELSE IF Less(k, Head(sorted)) THEN <<k>> \o sorted
    ELSE <<Head(sorted)>> \o Insert(k, Tail(sorted))

\* sort.Strings(keys)
RECURSIVE SortStrings(_)
SortStrings(keys) ==
    IF keys = <<>> THEN <<>>
    ELSE Insert(Head(keys), SortStrings(Tail(keys)))

\* The sequences without repetition of the elements of S: the orders in
\* which a range over a map with these keys can give them.
RECURSIVE Orders(_)
Orders(S) ==
    IF S = {} THEN {<<>>}
    ELSE UNION {{<<k>> \o o : o \in Orders(S \ {k})} : k \in S}

\* The names given for the key and for the value of an entry.
Names == {"key", "value"}

\* map[string]interface{}{keyName: k, valName: v}: of two equal names the
\* second is the one that stays.
Entry(keyName, k, valName, v) ==
    [n \in {keyName, valName} |-> IF n = valName THEN v ELSE k]

\* formatError(invalidArgumentTypeError, function, values...): the
\* function and the values it is called with.
InvalidArgumentType(function, values) ==
    [err |-> "InvalidArgumentType", function |-> function, values |-> values,
     entries |-> <<>>]

\* The value `arguments` (the whole argument list) given to formatError.
ArgumentList == "arguments"

\* (arrayOfObj, nil)
ItemsResult(entries) ==
    [err |-> "", function |-> "", values |-> <<>>, entries |-> entries]

\* jpItems, lines 965-970, with the keys as they were: no sort.
ObjectEntries_Unsorted(keys, vals, keyName, valName) ==
    [i \in 1..Len(keys) |-> Entry(keyName, Str(keys[i]), valName, vals[keys[i]])]

\* jpItems, lines 958-971: the entries of an object whose range gives
\* the keys in this order.
ObjectEntries(keys, vals, keyName, valName) ==
    LET sorted == SortStrings(keys)
    IN  [i \in 1..Len(sorted) |->
            Entry(keyName, Str(sorted[i]), valName, vals[sorted[i]])]

\* jpItems, lines 973-980: the entries of an array; the index is 0-based.
ArrayEntries(elems, keyName, valName) ==
    [i \in 1..Len(elems) |-> Entry(keyName, Num(i - 1), valName, elems[i])]

\* jpItems (functions.go lines 946-983). a is the call: whether the two
\* names are strings, the names, and the input, an object (the order of
\* its range and its values), an array or something else.
jpItems(a) ==
    IF ~a.keyIsString
    THEN InvalidArgumentType("items", <<ArgumentList, 1, "String">>)
    ELSE IF ~a.valIsString
    THEN InvalidArgumentType("items", <<ArgumentList, 2, "String">>)
    ELSE IF a.kind = "object"
    THEN ItemsResult(ObjectEntries(a.order, a.vals, a.keyName, a.valName))
    ELSE IF a.kind = "array"
    THEN ItemsResult(ArrayEntries(a.elems, a.keyName, a.valName))
    ELSE InvalidArgumentType("items", <<ArgumentList, 0, "Object or Array">>)

\* The inputs of items.
ItemsCall(keyIsString, keyName, valIsString, valName, kind, order, vals, elems) ==
    [keyIsString |-> keyIsString, keyName |-> keyName,
     valIsString |-> valIsString, valName |-> valName,
     kind |-> kind, order |-> order, vals |-> vals, elems |-> elems]

\* ------------------------------------------------------- argument types

\* The functions that check the type of an argument themselves, and the
\* positions (in the argument list, from 0) they check.
CheckedArguments ==
    {<<"regex_replace_all", 1>>, <<"regex_replace_all", 2>>,
     <<"regex_replace_all_literal", 1>>, <<"regex_replace_all_literal", 2>>,
     <<"regex_match", 1>>, <<"pattern_match", 1>>,
     <<"label_match", 0>>, <<"label_match", 1>>,
     <<"items", 0>>, <<"items", 1>>, <<"items", 2>>,
     <<"object_from_lists", 0>>, <<"object_from_lists", 1>>}

\* The error of function f called with an argument of the wrong type at
\* position p, the other arguments being right (functions.go lines 668-676,
\* 692-700, 716-719, 730-733, 739-749, 947-982, 986-993).
WrongArgument(f, p) ==
    IF f \in {"regex_replace_all", "regex_replace_all_literal"}
    THEN InvalidArgumentType(f, <<p + 1, "String or Real">>)
    ELSE IF f = "regex_match"
    THEN InvalidArgumentType("regex_match", <<2, "String or Real">>)
    ELSE IF f = "pattern_match"
    THEN InvalidArgumentType("regex_match", <<2, "String or Real">>)
    ELSE IF f = "label_match"
    THEN InvalidArgumentType("label_match", <<p, "Object">>)
    ELSE IF f = "items"
    THEN jpItems(ItemsCall(p # 1, "key", p # 2, "value",
                           IF p = 0 THEN "other" ELSE "array", <<>>, <<>>, <<>>))
    ELSE InvalidArgumentType("object_from_lists", <<ArgumentList, p, "Array">>)

\* ----------------------------------------------------------------- API call

\* The methods a context entry names for a service call ("": none).
Methods == {"", "GET", "POST", "PUT"}

\* The paths requested of the server.
UrlPaths == {"", "/resource"}

\* What the server is built to answer, and the bodies of the requests.
Bodies == {"sunday", "monday", "{}"}

\* buildTestServer (part_001 lines 17-33): "/resource" answers a GET with
\* responseData and a POST with the body of the request; another method
\* gets an empty answer and another path is not found.
ServeHTTP(responseData, method, path, body) ==
    IF path # "/resource" THEN [status |-> 404, body |-> "404 page not found"]
    ELSE IF method = "GET" THEN [status |-> 200, body |-> responseData]
    ELSE IF method = "POST" THEN [status |-> 200, body |-> body]
    ELSE [status |-> 200, body |-> ""]

\* (nil, err)
CallFailure(err) == [err |-> err, data |-> ""]

\* New(ctx, entry, jsonCtx, client, log): fails for an entry without an
\* APICall (part_001 lines 40-44), else gives the call (lines 53-54).
New(e) ==
    IF ~e.hasAPICall THEN CallFailure("missing APICall") ELSE CallFailure("")

\* Execute, but the answer of the server is returned whatever its status.
Execute_StatusUnchecked(e, responseData) ==
    IF e.method \notin {"GET", "POST"}
    THEN CallFailure("invalid request type")
    ELSE [err |-> "",
          data |-> ServeHTTP(responseData, e.method, e.path, e.body).body]

\* call.Execute() (part_001 lines 55-71, 92-94): the method is checked
\* before the request is made, then the status of the answer.
Execute(e, responseData) ==
    IF e.method \notin {"GET", "POST"}
    THEN CallFailure("invalid request type")
    ELSE LET resp == ServeHTTP(responseData, e.method, e.path, e.body)
         IN  IF resp.status # 200
             THEN CallFailure("HTTP 404")
             ELSE [err |-> "", data |-> resp.body]

\* ------------------------------------------------------------------ state

VARIABLES
    entry,        \* the entry point of this request
    pc,           \* where the entry point is: start, run, loop, exit, done, panic
    policy,       \* validate: the rule; the validator fields at each nesting
    jsonContext,  \* the request's JSON context
    stack,        \* the validator activations, innermost last
    ret,          \* what the last call returned, until its caller reads it
    rules,        \* verifyAndPatchImages: the expanded rule list
    applyRules,   \* verifyAndPatchImages: the policy's apply-rules mode
    ruleIdx,      \* verifyAndPatchImages: rules the loop is done with
    polResp,      \* verifyAndPatchImages: the policy response
    hist,         \* history: what ran, for stating the properties
    call          \* a single call of a function: its arguments and its result

vars == <<entry, pc, policy, jsonContext, stack, ret, rules, applyRules, ruleIdx, polResp, hist, call>>

Null == 0

NoValidator == [deny |-> FALSE, pattern |-> FALSE, anyPattern |-> FALSE, forEach |-> NilForEach]

\* Whether validate on v reaches validateForEach with entries to run.
HasEntries(v) == ~v.deny /\ ~v.pattern /\ ~v.anyPattern /\ v.forEach > 0

\* The rules: the validator of the rule (nesting 0) and, for each nesting
\* below, the fields newForEachValidator copies from the for-each entries of
\* the nesting above. A nesting no validator reaches declares nothing.
Policies ==
    {p \in [0..(MaxNesting + 1) -> Validators(0)] :
        \A d \in 0..(MaxNesting + 1) :
            /\ p[d] \in Validators(d)
            /\ (d > 0 /\ ~HasEntries(p[d - 1])) => p[d] = NoValidator}

\* A validator activation: its nesting, where it is (at), the locals of
\* validateForEach (li, applyCount) and of validateElements (n = the length
\* of elements, index, count), and history: whether an Error was passed
\* over in this list (swallowed) and a Pass came after one (passAfter),
\* whether an element's body gave another status than Pass, Skip or Error
\* (failed), how
\* many elements' bodies passed in this validateForEach (passed), whether
\* the element the loop went over last was null (lastNull), and the
\* context when validateElements was entered (ctxIn).
NewFrame(nesting) ==
    [nesting |-> nesting, at |-> "validate",
     li |-> 0, applyCount |-> 0, n |-> 0, index |-> 0, count |-> 0,
     swallowed |-> FALSE, passAfter |-> FALSE, failed |-> FALSE, passed |-> 0,
     lastNull |-> FALSE, ctxIn |-> NewContext]

\* Nothing returned.
NoRet ==
    [kind |-> "none", resp |-> NilResponse, count |-> 0, completed |-> FALSE,
     last |-> NilResponse, v |-> NoValidator, load |-> "ok", pre |-> "true",
     trace |-> <<>>, frame |-> NewFrame(0)]

\* History of verifyAndPatchImages: the rules the loop has run in order, the
\* applied count after each, every response the handlers returned in order,
\* and the context when the function was entered.
NoHist == [processed |-> <<>>, appliedAfter |-> <<>>, produced |-> <<>>,
           ctxIn |-> NewContext]

Top == stack[Len(stack)]
SetTop(f) == [stack EXCEPT ![Len(stack)] = f]
Pop == SubSeq(stack, 1, Len(stack) - 1)

\* The context when the entry point is called: its caller has pushed a
\* checkpoint and loaded the rule's context since.
RequestContext == Bind(Checkpoint(NewContext), "entry", 0)

\* The validator of the innermost activation.
V == policy[Top.nesting]

\* No single call.
NoCall == [args |-> <<>>, out |-> <<>>]

\* The message of a rule and what substituting it gives: nothing is
\* substituted when the rule has no message.
MessageCases == {<<"", "string">>} \cup ((RuleMessages \ {""}) \X MessageOutcomes)

\* One call of validate: a validator of any shape, every answer the
\* collaborators may give it, with the message of the rule, what
\* substituting it gives, and the paths the matcher names.
InitValidateCall ==
    \E v \in Validators(0) : \E o \in Answers(v) :
        \E m \in MessageCases, ps \in [1..MaxPatterns -> Paths] :
            call = [args |-> [v |-> v,
                              o |-> [o EXCEPT !.msg = m[1], !.msgSubst = m[2],
                                              !.paths = ps]],
                    out |-> <<>>]

\* One call of Patch: a patcher of either kind for a rule and a resource,
\* and how converting and applying the patch end. A strategic merge patch
\* is not converted.
InitPatchCall ==
    \E k \in {"patchesJSON6902", "patchStrategicMerge"}, n \in RuleNames,
       d \in Documents, p \in ProcessOutcomes :
        \E c \in (IF k = "patchesJSON6902" THEN ConvertOutcomes ELSE {"ok"}) :
            call = [args |-> [kind |-> k, ruleName |-> n, patchedResource |-> d,
                              convert |-> c, proc |-> p],
                    out |-> <<>>]

\* One call of mutateExistingHandler.Process: whether loadTargets failed,
\* and the targets it returned with their answers.
InitMutateExistingCall ==
    \E e \in BOOLEAN, ts \in TargetLists, d \in Documents :
        call = [args |-> [resource |-> d, loadErr |-> e, targets |-> ts], out |-> <<>>]

\* One call of an arithmetic function on two arguments.
InitArithmeticCall ==
    \E f \in Operators, a1 \in Go("Arguments", <<>>), a2 \in Go("Arguments", <<>>) :
        call = [args |-> [operator |-> f, a1 |-> a1, a2 |-> a2], out |-> <<>>]

InitSumCall ==
    \E isList \in BOOLEAN, items \in Go("ItemLists", <<MaxItems>>) :
        /\ ~isList => items = <<>>
        /\ call = [args |-> [isList |-> isList, items |-> items], out |-> <<>>]

InitItemsCall ==
    \E keyName \in Names, valName \in Names,
       keyIsString \in BOOLEAN, valIsString \in BOOLEAN,
       kind \in {"object", "array", "other"} :
        \E S \in {T \in SUBSET Keys : Cardinality(T) <= MaxKeys} :
            \E order \in Orders(S), vals \in [S -> Values],
               elems \in UNION {[1..k -> Values] : k \in 0..MaxKeys} :
                /\ kind # "object" => S = {}
                /\ kind # "array" => elems = <<>>
                /\ call = [args |-> ItemsCall(keyIsString, keyName, valIsString,
                                              valName, kind, order, vals, elems),
                           out |-> <<>>]

InitTypeCall ==
    \E c1 \in CheckedArguments, c2 \in CheckedArguments :
        call = [args |-> <<c1, c2>>, out |-> <<>>]

InitAPICall ==
    \E hasAPICall \in BOOLEAN, method \in Methods, path \in UrlPaths,
       body \in Bodies, responseData \in Bodies :
        /\ ~hasAPICall => (method = "" /\ path = "")
        /\ call = [args |-> [entry |-> [hasAPICall |-> hasAPICall, method |-> method,
                                        path |-> path, body |-> body],
                             responseData |-> responseData],
                   out |-> <<>>]

\* The call an entry point is made with.
InitCall ==
    IF entry = "validator" THEN InitValidateCall
    ELSE IF entry = "patch" THEN InitPatchCall
    ELSE IF entry = "mutateExisting" THEN InitMutateExistingCall
    ELSE IF entry = "arithmetic" THEN InitArithmeticCall
    ELSE IF entry = "sum" THEN InitSumCall
    ELSE IF entry = "items" THEN InitItemsCall
    ELSE IF entry = "argumentType" THEN InitTypeCall
    ELSE IF entry = "apiCall" THEN InitAPICall
    ELSE call = NoCall

\* The entry points.
Entries == {"validate", "verifyImages", "validator", "patch", "mutateExisting",
            "arithmetic", "sum", "items", "argumentType",
            "apiCall"}

Init ==
    /\ entry \in Entries
    /\ InitCall
    /\ pc = "start"
    /\ policy \in (IF entry = "validate" THEN Policies
                   ELSE {[d \in 0..(MaxNesting + 1) |-> NoValidator]})
    /\ jsonContext = RequestContext
    /\ stack = <<>>
    /\ ret = NoRet
    /\ rules \in (IF entry = "verifyImages" THEN RuleLists ELSE {<<>>})
    /\ applyRules \in (IF entry = "verifyImages" THEN ApplyModes ELSE {"All"})
    /\ ruleIdx = 0
    /\ polResp = NewPolicyResponse
    /\ hist = NoHist

imageVars == <<rules, applyRules, ruleIdx, polResp, hist>>

\* ---------------------------------------------------------------- actions

\* validateResourceHandler.Process: newValidator on the rule, then validate.
Process ==
    /\ entry = "validate" /\ pc = "start"
    /\ stack' = <<NewFrame(0)>>
    /\ pc' = "run"
    /\ UNCHANGED <<entry, policy, call, jsonContext, ret, imageVars>>

\* The innermost validate returns r to its caller: to validateElements of
\* the enclosing activation, or to Process.
ReturnFromValidate(r) ==
    /\ stack' = Pop
    /\ ret' = [r EXCEPT !.kind = "validate", !.v = V, !.frame = Top]
    /\ pc' = IF Len(stack) = 1 THEN "done" ELSE pc

RECURSIVE Unwind(_, _)
\* A panic unwinds the stack: every validateElements on it runs its
\* deferred Restore.
Unwind(c, k) == IF k = 0 THEN c ELSE Unwind(deferRestore(c), k - 1)

\* validator.validate, lines 100-132, with the collaborators' answers o.
\* The context loader may bind a variable whether or not it fails.
Validate ==
    /\ pc = "run" /\ stack # <<>> /\ Top.at = "validate"
    /\ \E o \in Answers(V) :
        LET r == validate(V, o)
            c == IF o.loaded THEN Bind(jsonContext, "entry", Top.nesting + 1)
                 ELSE jsonContext
        IN  IF r.resp.status = "panic"
            THEN /\ jsonContext' = Unwind(c, Len(stack) - 1)
                 /\ stack' = <<>>
                 /\ ret' = [NoRet EXCEPT !.kind = "panic", !.v = V, !.trace = r.trace]
                 /\ pc' = "panic"
            ELSE IF r.enter
            THEN /\ jsonContext' = c
                 /\ stack' = SetTop([Top EXCEPT !.at = "forEach"])
                 /\ ret' = NoRet
                 /\ pc' = pc
            ELSE /\ jsonContext' = c
                 /\ ReturnFromValidate([NoRet EXCEPT !.resp = r.resp, !.load = o.load,
                                                     !.pre = o.pre, !.trace = r.trace])
    /\ UNCHANGED <<entry, policy, call, imageVars>>

\* validateForEach, lines 137-141: the list of the next for-each entry
\* fails to evaluate; the entry is skipped.
ForEachListError ==
    /\ pc = "run" /\ stack # <<>> /\ Top.at = "forEach"
    /\ Top.li < V.forEach
    /\ stack' = SetTop([Top EXCEPT !.li = @ + 1])
    /\ UNCHANGED <<entry, policy, call, pc, jsonContext, ret, imageVars>>

\* validateForEach, line 142, and validateElements, lines 158-160: the list
\* of the next for-each entry evaluates to n elements, and validateElements
\* pushes its checkpoint.
ForEachElements ==
    /\ pc = "run" /\ stack # <<>> /\ Top.at = "forEach"
    /\ Top.li < V.forEach
    /\ \E n \in 0..MaxElems :
        stack' = SetTop([Top EXCEPT !.at = "elements", !.n = n, !.index = 0,
                                    !.count = 0, !.swallowed = FALSE,
                                    !.passAfter = FALSE, !.failed = FALSE,
                                    !.lastNull = FALSE,
                                    !.ctxIn = jsonContext])
    /\ jsonContext' = Checkpoint(jsonContext)
    /\ UNCHANGED <<entry, policy, call, pc, ret, imageVars>>

\* validateForEach, lines 148-154: every entry is done.
ForEachDone ==
    /\ pc = "run" /\ stack # <<>> /\ Top.at = "forEach"
    /\ Top.li >= V.forEach
    /\ ReturnFromValidate(
           [NoRet EXCEPT !.resp = validateForEachVerdict(Top.applyCount, V.forEach),
                         !.completed = TRUE,
                         !.trace = <<"loadContext", "preconditions", "forEach">>])
    /\ UNCHANGED <<entry, policy, call, jsonContext, imageVars>>

\* validateElements returns resp: the deferred Restore runs, and
\* validateForEach reads the response next. last is the response of the
\* element that ended the loop, if one did.
ReturnFromElements(resp, last, f, c) ==
    /\ jsonContext' = deferRestore(c)
    /\ stack' = SetTop([f EXCEPT !.at = "forEachResult"])
    /\ ret' = [NoRet EXCEPT !.kind = "elements", !.resp = resp,
                            !.count = f.count, !.last = last, !.frame = f]
    /\ pc' = pc

\* validateElements, line 202: the loop is over.
ElementsDone ==
    /\ pc = "run" /\ stack # <<>> /\ Top.at = "elements"
    /\ Top.index >= Top.n
    /\ ReturnFromElements(RulePass(Validation, ""), NilResponse, Top, jsonContext)
    /\ UNCHANGED <<entry, policy, call, imageVars>>

\* validateElements, lines 162-165: the next element is null.
ElementsNull ==
    /\ pc = "run" /\ stack # <<>> /\ Top.at = "elements"
    /\ Top.index < Top.n
    /\ stack' = SetTop([Top EXCEPT !.index = @ + 1, !.lastNull = TRUE])
    /\ UNCHANGED <<entry, policy, call, pc, jsonContext, ret, imageVars>>

\* validateElements, lines 167-180: the next element is not null. The
\* context is reset to the checkpoint, the element is bound in the copy of
\* the policy context (which shares the request's JSON context), the
\* element's validator is made and its validate is called; binding or
\* making the validator may fail.
ElementsCall ==
    /\ pc = "run" /\ stack # <<>> /\ Top.at = "elements"
    /\ Top.index < Top.n
    /\ \E step \in {"bind failed", "validator failed", "ok"} :
        LET c0 == resetForElement(jsonContext)
            top == [Top EXCEPT !.lastNull = FALSE]
            c1 == AddElementToContext(c0, 1, Top.index)
        IN  IF step = "bind failed"
            THEN ReturnFromElements(
                     RuleError(Validation, "failed to process foreach", "err"),
                     NilResponse, top, c0)
            ELSE IF step = "validator failed"
            THEN ReturnFromElements(
                     RuleError(Validation, "failed to create foreach validator", "err"),
                     NilResponse, top, c1)
            ELSE /\ jsonContext' = c1
                 /\ stack' = Append(SetTop([top EXCEPT !.at = "elementResult"]),
                                    NewFrame(Top.nesting + 1))
                 /\ UNCHANGED <<ret, pc>>
    /\ UNCHANGED <<entry, policy, call, imageVars>>

\* validateElements, lines 180-199: the element's validate has returned r.
ElementResult ==
    /\ pc = "run" /\ stack # <<>> /\ Top.at = "elementResult"
    /\ ret.kind = "validate"
    /\ LET r == ret.resp
           er == elementResult(r, Top.index, Top.n)
           f == [Top EXCEPT !.passed = IF r.status = "pass" THEN @ + 1 ELSE @,
                            !.passAfter = @ \/ (Top.swallowed /\ r.status = "pass"),
                            !.failed = r.status \notin {"nil", "pass", "skip", "error"},
                            !.lastNull = FALSE]
       IN  IF er.do = "return"
           THEN ReturnFromElements(er.resp, r, f, jsonContext)
           ELSE /\ stack' = SetTop([f EXCEPT !.at = "elements", !.index = @ + 1,
                                             !.count = IF er.do = "apply" THEN @ + 1 ELSE @,
                                             !.swallowed = @ \/ r.status = "error"])
                /\ ret' = NoRet
                /\ UNCHANGED <<jsonContext, pc>>
    /\ UNCHANGED <<entry, policy, call, imageVars>>

\* validateForEach, lines 142-146: validateElements has returned.
ForEachResult ==
    /\ pc = "run" /\ stack # <<>> /\ Top.at = "forEachResult"
    /\ ret.kind = "elements"
    /\ IF forEachReturns(ret.resp)
       THEN ReturnFromValidate(
                [NoRet EXCEPT !.resp = ret.resp, !.last = ret.last,
                              !.trace = <<"loadContext", "preconditions", "forEach">>])
       ELSE /\ stack' = SetTop([Top EXCEPT !.at = "forEach", !.li = @ + 1,
                                           !.applyCount = @ + ret.count])
            /\ ret' = NoRet
            /\ pc' = pc
    /\ UNCHANGED <<entry, policy, call, jsonContext, imageVars>>

\* verifyAndPatchImages, lines 21-28: the checkpoint before the rule loop.
VerifyImagesBegin ==
    /\ entry = "verifyImages" /\ pc = "start"
    /\ jsonContext' = Checkpoint(jsonContext)
    /\ hist' = [hist EXCEPT !.ctxIn = jsonContext]
    /\ pc' = "loop"
    /\ UNCHANGED <<entry, policy, call, stack, ret, rules, applyRules, ruleIdx, polResp>>

\* verifyAndPatchImages, lines 30-64: one rule. invokeRuleHandler returns
\* the rule's responses (the handler may bind context variables), each is
\* added to the policy response, and the loop breaks or goes on.
VerifyImagesRule ==
    /\ pc = "loop" /\ ruleIdx < Len(rules)
    /\ \E rrs \in HandlerResponses(ruleIdx + 1, rules[ruleIdx + 1],
                                   MaxResps - Len(polResp.rules)), loaded \in BOOLEAN :
        LET resp == AddRuleResponses(polResp, rrs)
        IN  /\ polResp' = resp
            /\ jsonContext' = IF loaded /\ rules[ruleIdx + 1].verifyImages
                              THEN Bind(jsonContext, "entry", ruleIdx + 1)
                              ELSE jsonContext
            /\ hist' = [hist EXCEPT !.processed = Append(@, ruleIdx + 1),
                                    !.appliedAfter = Append(@, resp.applied),
                                    !.produced = @ \o rrs]
            /\ pc' = IF breakAfterRule(applyRules, resp) THEN "exit" ELSE "loop"
    /\ ruleIdx' = ruleIdx + 1
    /\ UNCHANGED <<entry, policy, call, stack, ret, rules, applyRules>>

\* verifyAndPatchImages, lines 28 and 66: the loop has ended or broken; the
\* deferred Restore runs and the policy response is returned.
VerifyImagesReturn ==
    /\ \/ pc = "exit"
       \/ pc = "loop" /\ ruleIdx >= Len(rules)
    /\ jsonContext' = deferRestoreImages(jsonContext)
    /\ pc' = "done"
    /\ UNCHANGED <<entry, policy, call, stack, ret, imageVars>>

\* Everything but the single call and where it is.
machineVars ==
    <<entry, policy, jsonContext, stack, ret, rules, applyRules, ruleIdx, polResp, hist>>

\* validator.validate once, on the answers of the call: its response, the
\* collaborators it consulted, and whether it went on into validateForEach;
\* the context holds the entry the loader has bound, if it has bound one.
ValidateOnce ==
    /\ entry = "validator" /\ pc = "start"
    /\ call' = [call EXCEPT !.out = validate(call.args.v, call.args.o)]
    /\ jsonContext' = IF call.args.o.loaded THEN Bind(jsonContext, "entry", 1)
                      ELSE jsonContext
    /\ pc' = "done"
    /\ UNCHANGED <<entry, policy, stack, ret, rules, applyRules, ruleIdx, polResp, hist>>

\* Patcher.Patch once.
PatchOnce ==
    /\ entry = "patch" /\ pc = "start"
    /\ call' = [call EXCEPT !.out = Patch(call.args)]
    /\ pc' = "done"
    /\ UNCHANGED machineVars

\* mutateExistingHandler.Process once: what it returns, and what it has
\* written to the JSON context.
MutateExistingOnce ==
    /\ entry = "mutateExisting" /\ pc = "start"
    /\ call' = [call EXCEPT
                   !.out = mutateExistingHandlerProcess(call.args.resource,
                                                        call.args.loadErr,
                                                        call.args.targets)]
    /\ jsonContext' = processTargetsContext(jsonContext, call.args.targets, 1)
    /\ pc' = "done"
    /\ UNCHANGED <<entry, policy, stack, ret, rules, applyRules, ruleIdx, polResp,
                   hist>>

\* An arithmetic function once.
ArithmeticOnce ==
    /\ entry = "arithmetic" /\ pc = "start"
    /\ call' = [call EXCEPT
                   !.out = Go("Arithmetic", <<call.args.operator, call.args.a1, call.args.a2>>)]
    /\ pc' = "done"
    /\ UNCHANGED machineVars

SumOnce ==
    /\ entry = "sum" /\ pc = "start"
    /\ call' = [call EXCEPT !.out = Go("jpSum", <<call.args.isList, call.args.items>>)]
    /\ pc' = "done"
    /\ UNCHANGED machineVars

ItemsOnce ==
    /\ entry = "items" /\ pc = "start"
    /\ call' = [call EXCEPT !.out = jpItems(call.args)]
    /\ pc' = "done"
    /\ UNCHANGED machineVars

\* Two calls, each with one argument of the wrong type.
WrongArgumentTwice ==
    /\ entry = "argumentType" /\ pc = "start"
    /\ call' = [call EXCEPT
                   !.out = <<WrongArgument(call.args[1][1], call.args[1][2]),
                             WrongArgument(call.args[2][1], call.args[2][2])>>]
    /\ pc' = "done"
    /\ UNCHANGED machineVars

\* New: the call is constructed, or refused.
APICallNew ==
    /\ entry = "apiCall" /\ pc = "start"
    /\ call' = [call EXCEPT !.out = New(call.args.entry)]
    /\ pc' = IF New(call.args.entry).err = "" THEN "constructed" ELSE "done"
    /\ UNCHANGED machineVars

\* Execute on the call constructed.
APICallExecute ==
    /\ entry = "apiCall" /\ pc = "constructed"
    /\ call' = [call EXCEPT !.out = Execute(call.args.entry, call.args.responseData)]
    /\ pc' = "done"
    /\ UNCHANGED machineVars

\* The steps of validateResourceHandler.Process.
ValidatorNext ==
    \/ Process
    \/ Validate
    \/ ForEachListError
    \/ ForEachElements
    \/ ForEachDone
    \/ ElementsDone
    \/ ElementsNull
    \/ ElementsCall
    \/ ElementResult
    \/ ForEachResult

\* The steps of verifyAndPatchImages.
ImagesNext ==
    \/ VerifyImagesBegin
    \/ VerifyImagesRule
    \/ VerifyImagesReturn

\* The single calls.
CallNext ==
    \/ ValidateOnce
    \/ PatchOnce
    \/ MutateExistingOnce
    \/ ArithmeticOnce
    \/ SumOnce
    \/ ItemsOnce
    \/ WrongArgumentTwice
    \/ APICallNew
    \/ APICallExecute

Next == ValidatorNext \/ ImagesNext \/ CallNext

\* Every request.
Spec == Init /\ [][Next]_vars

\* The requests that validate a rule whose for-each entries, if it has
\* any, do not declare a for-each themselves.
InitForEach ==
    /\ Init
    /\ entry = "validate"
    /\ ~HasEntries(policy[1])

SpecForEach == InitForEach /\ [][ValidatorNext]_vars

\* The requests that validate a rule whose for-each entries declare a
\* for-each themselves, of one entry. The steps of one request are taken
\* one after the other until it returns: nothing else runs in its unit of
\* work.
InitNested ==
    /\ Init
    /\ entry = "validate"
    /\ HasEntries(policy[0])
    /\ HasEntries(policy[1])
    /\ policy[1].forEach = 1

SpecNested == InitNested /\ [][ValidatorNext]_vars /\ WF_vars(ValidatorNext)

\* The requests that verify images.
InitImages ==
    /\ Init
    /\ entry = "verifyImages"

SpecImages == InitImages /\ [][ImagesNext]_vars

\* The single calls.
InitCalls ==
    /\ Init
    /\ entry \notin {"validate", "verifyImages"}

SpecCalls == InitCalls /\ [][CallNext]_vars

\* ------------------------------------------------------------ properties

Depth(c) == Len(c.jsonRawCheckpoints)

\* validateElements has just returned.
ElementsReturned == ret.kind = "elements"

\* validate has just returned.
ValidateReturned == ret.kind = "validate"

\* verifyAndPatchImages has returned.
ImagesReturned == entry = "verifyImages" /\ pc = "done"

\* C1, as stated: when the body of the last element of the list ends with
\* status Error, validateElements returns a response of status Fail that
\* folds the element's message.
C1_LastErrorGivesFail ==
    (ElementsReturned /\ ret.last.status = "error")
        => /\ ret.resp.status = "fail"
           /\ ret.resp.message = <<"validation failure: ">> \o ret.last.message

\* C1, amended: when the body of the last element of the list ends with
\* status Error, the iteration ends there and validateElements returns a
\* response that keeps the status Error and folds the element's message
\* after "validation failure: "; validateForEach returns that response as
\* the rule's.
C1_LastErrorKeepsError ==
    /\ (ElementsReturned /\ ret.last.status = "error")
        => /\ ret.frame.index = ret.frame.n - 1
           /\ Top.at = "forEachResult"
           /\ ret.resp.status = "error"
           /\ ret.resp.message = <<"validation failure: ">> \o ret.last.message
    /\ (ValidateReturned /\ ret.last.status = "error")
        => /\ ret.resp.status = "error"
           /\ ret.resp.message = <<"validation failure: ">> \o ret.last.message

\* A list of two elements: the first passed, the last ended with Error.
C1_Witness ==
    /\ ElementsReturned
    /\ ret.last.status = "error"
    /\ ret.frame.n = 2 /\ ret.frame.index = 1 /\ ret.frame.count = 1

\* C2: an Error of an element that is not the last does not end the
\* iteration (validateElements returns on an Error only at the last
\* position), and when a later element passes and the loop runs to its end,
\* validateElements returns Pass with that element counted and the rule,
\* once every list is done, passes.
C2_NonLastErrorContinues ==
    /\ (ElementsReturned /\ ret.last.status = "error")
        => ret.frame.index = ret.frame.n - 1
    /\ \A i \in 1..Len(stack) :
        (stack[i].swallowed /\ stack[i].at \in {"elements", "elementResult"})
            => stack[i].index >= 1
    /\ (ElementsReturned /\ ret.frame.passAfter /\ ret.frame.index >= ret.frame.n)
        => /\ ret.resp.status = "pass"
           /\ ret.count >= 1
    /\ (ValidateReturned /\ ret.completed /\ ret.frame.passAfter)
        => ret.resp.status = "pass"

\* The rule's only list had an Error before its last element and a Pass
\* after it, and the rule passed.
C2_Witness ==
    /\ ValidateReturned /\ ret.completed
    /\ pc = "done"
    /\ ret.frame.passAfter
    /\ ret.resp.status = "pass"

\* C3: the first element whose body gives a status other than Pass, Skip,
\* Error or none ends the iteration at once: no activation goes on in its
\* list after it, and validateElements and the rule return status Fail,
\* whatever the earlier elements gave.
C3_OtherStatusAborts ==
    /\ \A i \in 1..Len(stack) :
        stack[i].failed => stack[i].at = "forEachResult"
    /\ (ElementsReturned /\ ret.last.status \notin {"nil", "pass", "skip", "error"})
        => /\ ret.resp.status = "fail"
           /\ ret.frame.failed
    /\ (ValidateReturned /\ ret.last.status \notin {"nil", "pass", "skip", "error"})
        => ret.resp.status = "fail"

\* The first of two elements failed; the second was never evaluated.
C3_Witness ==
    /\ ElementsReturned
    /\ ret.last.status = "fail"
    /\ ret.frame.n = 2 /\ ret.frame.index = 0

\* C4: when validateForEach runs to the end of its lists, the verdict is
\* Skip if no element's body returned Pass and Pass otherwise; nothing else
\* counts.
C4_VerdictCountsPasses ==
    (ValidateReturned /\ ret.completed)
        => /\ ret.frame.applyCount = ret.frame.passed
           /\ ret.resp.status = IF ret.frame.passed = 0 THEN "skip" ELSE "pass"

\* Two lists were done and nothing passed: the rule is skipped.
C4_Witness ==
    /\ ValidateReturned /\ ret.completed
    /\ ret.frame.li = 2
    /\ ret.frame.passed = 0
    /\ ret.resp.status = "skip"

\* C5: when validateElements returns, normally or early, and when
\* verifyAndPatchImages returns, the checkpoint stack is as deep as when the
\* function was entered; while either runs it holds exactly the function's
\* own checkpoints above that.
C5_CheckpointsBalanced ==
    /\ ElementsReturned => Depth(jsonContext) = Depth(ret.frame.ctxIn)
    /\ ImagesReturned => Depth(jsonContext) = Depth(hist.ctxIn)
    /\ (entry = "validate" /\ pc \in {"done", "panic"})
        => Depth(jsonContext) = Depth(RequestContext)
    /\ \A i \in 1..Len(stack) :
        stack[i].at \in {"elements", "elementResult"}
            => Depth(stack[i].ctxIn) + 1 <= Depth(jsonContext)

\* A nested validateElements returned early, on a validator it could not
\* make.
C5_Witness ==
    /\ ElementsReturned
    /\ Len(stack) = 2
    /\ ret.resp.message[1] = "failed to create foreach validator"

\* C6: after the Restore that matches a Checkpoint the context is what it
\* was just before the Checkpoint, also when pairs nest; an element's
\* validator starts from the context of the checkpoint with its own element
\* bound, whatever its siblings bound; and nothing bound during
\* verifyAndPatchImages is left when it returns.
C6_RestoreRoundTrip ==
    /\ ElementsReturned => jsonContext = ret.frame.ctxIn
    /\ ImagesReturned => jsonContext = hist.ctxIn
    /\ (Len(stack) >= 2 /\ Top.at = "validate")
        => jsonContext.jsonRaw =
              AddElementToContext(stack[Len(stack) - 1].ctxIn, 1,
                                  stack[Len(stack) - 1].index).jsonRaw

\* A nested validateElements returned after its second element's validator
\* had loaded a context entry.
C6_Witness ==
    /\ ElementsReturned
    /\ Len(stack) = 2
    /\ ret.frame.index = 1
    /\ ret.last.status = "fail"
    /\ ret.frame.ctxIn.jsonRaw["elementIndex"] # Unbound

\* C7: under ApplyOne no rule is run after one that left a positive applied
\* count; in any other mode, and under ApplyOne while the count stays zero,
\* every rule of the list is run.
C7_ApplyOneStops ==
    /\ applyRules = "One"
        => \A k \in 1..(Len(hist.processed) - 1) : hist.appliedAfter[k] = 0
    /\ (ImagesReturned /\ (applyRules # "One" \/ polResp.applied = 0))
        => hist.processed = [k \in 1..Len(rules) |-> k]

\* Under ApplyOne the first of two rules was applied and the second never ran.
C7_Witness ==
    /\ ImagesReturned
    /\ applyRules = "One"
    /\ Len(rules) = 2
    /\ hist.processed = <<1>>

\* C8: the rules run in the order of the list, without gaps; the policy
\* response holds every response the handlers returned, in that order; the
\* loop ends before the end of the list only under ApplyOne with a positive
\* applied count; responses of status Fail, Error or Skip alone leave the
\* applied count at zero; so the loop never ends before the end of the list
\* while every response so far is a Fail, an Error or a Skip.
C8_RulesRunInOrder ==
    /\ hist.processed = [k \in 1..ruleIdx |-> k]
    /\ polResp.rules = hist.produced
    /\ (entry = "verifyImages" /\ pc \in {"exit", "done"} /\ ruleIdx < Len(rules))
        => (applyRules = "One" /\ polResp.applied > 0)
    /\ (\A k \in 1..Len(polResp.rules) :
            polResp.rules[k].status \in {"fail", "error", "skip"})
        => /\ polResp.applied = 0
           /\ (entry = "verifyImages" /\ pc \in {"exit", "done"})
                => ruleIdx = Len(rules)

\* Under ApplyOne the first rule gave a Fail, an Error and a Skip, and the
\* second rule ran all the same.
C8_Witness ==
    /\ ImagesReturned
    /\ applyRules = "One"
    /\ hist.processed = <<1, 2>>
    /\ Len(polResp.rules) = 4
    /\ polResp.rules[1] = [rule |-> 1, status |-> "fail"]
    /\ polResp.rules[2] = [rule |-> 1, status |-> "error"]
    /\ polResp.rules[3] = [rule |-> 1, status |-> "skip"]
    /\ polResp.rules[4].rule = 2

\* C9: when loading the context fails, with a not-found error or any
\* other, validate returns an Error response and consults nothing else.
C9_LoadFailureIsError ==
    (ValidateReturned /\ ret.load # "ok")
        => /\ ret.resp.status = "error"
           /\ ret.resp.message[1] = "failed to load context"
           /\ ret.trace = <<"loadContext">>

\* A not-found failure on a validator with a deny.
C9_Witness ==
    /\ ValidateReturned
    /\ ret.load = "notfound"
    /\ ret.v.deny
    /\ ret.resp.status = "error"

\* C10: once the context has loaded, validate evaluates the preconditions
\* before any body: unmet preconditions give Skip, preconditions that fail
\* to evaluate give Error, and in both cases nothing else is consulted.
C10_PreconditionsFirst ==
    /\ (ValidateReturned /\ ret.load = "ok" /\ ret.pre = "false")
        => /\ ret.resp.status = "skip"
           /\ ret.trace = <<"loadContext", "preconditions">>
    /\ (ValidateReturned /\ ret.load = "ok" /\ ret.pre = "err")
        => /\ ret.resp.status = "error"
           /\ ret.resp.message[1] = "failed to evaluate preconditions"
           /\ ret.trace = <<"loadContext", "preconditions">>
    /\ (ValidateReturned /\ Len(ret.trace) >= 2)
        => ret.trace[2] = "preconditions"

\* Unmet preconditions on a validator with a pattern.
C10_Witness ==
    /\ ValidateReturned
    /\ ret.pre = "false"
    /\ ret.v.pattern
    /\ ret.resp.status = "skip"

\* ------------------------------------------------- verdicts of a rule body

\* validate has been called once and has returned or panicked.
ValidateCalled == entry = "validator" /\ pc = "done"

\* The call's context loaded and its preconditions were met.
BodyReached ==
    /\ ValidateCalled
    /\ call.args.o.load = "ok"
    /\ call.args.o.pre = "true"

\* The call reached the matcher: no deny, the patterns substituted, and
\* there is a resource or an element to match.
MatcherReached ==
    /\ BodyReached
    /\ ~call.args.v.deny
    /\ call.args.o.subst = "ok"
    /\ call.args.o.target # "delete"

\* Whether the text t is part of the message msg.
Carries(msg, t) == \E i \in 1..Len(msg) : msg[i] = t

\* C11: for a validator with a deny whose body is reached, the response is
\* Fail exactly when the conditions evaluate to true and Pass exactly when
\* they evaluate to false; conditions that fail to evaluate give Error.
C11_DenyVerdict ==
    (BodyReached /\ call.args.v.deny)
        => /\ call.out.resp.status = "fail" <=> call.args.o.deny = "true"
           /\ call.out.resp.status = "pass" <=> call.args.o.deny = "false"
           /\ call.args.o.deny = "err"
                => /\ call.out.resp.status = "error"
                   /\ call.out.resp.message[1] = "failed to check deny preconditions"

\* A validator with a deny and a pattern whose deny conditions hold.
C11_Witness ==
    /\ BodyReached
    /\ call.args.v.deny /\ call.args.v.pattern
    /\ call.args.o.deny = "true"
    /\ call.out.resp.status = "fail"

\* C12: for a validator with a pattern, no mismatch gives Pass, a mismatch
\* flagged as skip gives Skip, and any other mismatch at a path gives Fail
\* with the path in the message.
C12_PatternVerdict ==
    (MatcherReached /\ call.args.v.pattern)
        => /\ call.args.o.match[1] = "match" => call.out.resp.status = "pass"
           /\ call.args.o.match[1] = "skip" => call.out.resp.status = "skip"
           /\ call.args.o.match[1] = "path"
                => /\ call.out.resp.status = "fail"
                   /\ Carries(call.out.resp.message, call.args.o.paths[1])

\* C13: for a validator with an anyPattern that deserializes, the response
\* is Pass, naming the first matching candidate, exactly when some
\* candidate matches; otherwise it is Skip when every candidate skipped
\* and Fail, with every candidate's failure in the message in order, when
\* not.
C13_AnyPatternVerdict ==
    (MatcherReached /\ ~call.args.v.pattern /\ call.args.v.anyPattern
        /\ call.args.o.deser = "ok")
        => LET ms == call.args.o.match
               r == call.out.resp
           IN  /\ r.status = "pass" <=> \E i \in 1..Len(ms) : ms[i] = "match"
               /\ r.status = "pass"
                    => \E i \in 1..Len(ms) :
                          /\ ms[i] = "match"
                          /\ \A j \in 1..(i - 1) : ms[j] # "match"
                          /\ Carries(r.message, IndexText[i])
               /\ (\A i \in 1..Len(ms) : ms[i] # "match")
                    => IF \A i \in 1..Len(ms) : ms[i] = "skip"
                       THEN r.status = "skip"
                       ELSE /\ r.status = "fail"
                            /\ \A i \in 1..Len(ms) :
                                  ms[i] \in {"nopath", "path", "other"}
                                      => Carries(r.message, IndexText[i])

\* ---------------------------------------------------------------- patchers

\* Patch has been called once and has returned.
PatchCalled == entry = "patch" /\ pc = "done"

\* The patcher failed: the patch body did not convert, or applying it
\* failed.
PatchFailed ==
    /\ PatchCalled
    /\ call.args.convert # "ok" \/ call.args.proc # "patched"

\* C14 as stated: a JSON patch body that does not convert gives a response
\* of status Error whose message is the conversion error.
C14_ConversionFailureIsError ==
    (PatchCalled /\ call.args.kind = "patchesJSON6902" /\ call.args.convert # "ok")
        => /\ call.out.resp.status = "error"
           /\ call.out.resp.message = <<call.args.convert>>

\* C14, amended: a JSON patch body that does not convert gives a response
\* of status Fail whose message is the conversion error, and the patch is
\* not applied.
C14_ConversionFailureIsFail ==
    (PatchCalled /\ call.args.kind = "patchesJSON6902" /\ call.args.convert # "ok")
        => /\ call.out.resp.status = "fail"
           /\ call.out.resp.message = <<call.args.convert>>
           /\ ~call.out.doc.patched

\* A JSON patch body did not convert although applying it would have
\* patched the resource.
C14_Witness ==
    /\ PatchCalled
    /\ call.args.kind = "patchesJSON6902"
    /\ call.args.convert = "invalid character"
    /\ call.args.proc = "patched"
    /\ call.out.resp.status = "fail"

\* C15: a patcher that fails returns the empty document and a response of
\* status Error or Fail; every response of the JSON patch patcher names the
\* rule and has type Mutation.
C15_FailureReturnsEmptyDocument ==
    /\ PatchFailed
        => /\ call.out.doc = EmptyDocument
           /\ call.out.resp.status \in {"error", "fail"}
    /\ (PatchCalled /\ call.args.kind = "patchesJSON6902")
        => /\ call.out.resp.name = call.args.ruleName
           /\ call.out.resp.type = Mutation

\* The JSON patch patcher of rule "s" failed on a body that did not
\* convert.
C15_Witness ==
    /\ PatchFailed
    /\ call.args.kind = "patchesJSON6902"
    /\ call.args.ruleName = "s"
    /\ call.args.convert # "ok"
    /\ call.out.doc = EmptyDocument

\* ------------------------------------------------------- failures surface

\* mutateExistingHandler.Process has been called once and has returned.
MutateExistingCalled == entry = "mutateExisting" /\ pc = "done"

\* C16: nothing panics and every failure gives a response. A call of
\* validate never ends in a panic, and when the matcher returns an error
\* for the pattern, or for every candidate of the anyPattern, the response
\* is not a Pass; in mutateExistingHandler.Process every target that could
\* not be added to the context, whose context did not load or whose
\* preconditions did not evaluate has a response.
C16_FailuresSurface ==
    /\ ValidateCalled => call.out.resp.status # "panic"
    /\ (MatcherReached /\ call.args.v.pattern /\ call.args.o.match[1] # "match")
        => call.out.resp.status \notin {"pass", "panic"}
    /\ (MatcherReached /\ ~call.args.v.pattern /\ call.args.v.anyPattern
            /\ call.args.o.deser = "ok" /\ call.args.o.match # <<>>
            /\ \A i \in 1..Len(call.args.o.match) : call.args.o.match[i] # "match")
        => call.out.resp.status \notin {"pass", "panic"}
    /\ MutateExistingCalled
        => \A i \in 1..Len(call.args.targets) :
              LET t == call.args.targets[i]
              IN  (t.object /\ (t.add # "ok" \/ t.load # "ok" \/ t.pre = "err"))
                      => \E k \in 1..Len(call.out.responses) :
                            call.out.responses[k].target = i

\* --------------------------------------------------------------- arithmetic

\* An arithmetic function has been called once and has returned.
ArithmeticCalled == entry = "arithmetic" /\ pc = "done"

\* The operands of the call.
Op1 == ParseOperand(call.args.a1)
Op2 == ParseOperand(call.args.a2)

\* The call was of function f and both arguments gave an operand.
Applied(f) ==
    /\ ArithmeticCalled
    /\ call.args.operator = f
    /\ Op1 # NilOperand /\ Op2 # NilOperand

\* The operand is zero.
IsZeroOperand(op) ==
    IF op.tag = "Scalar" THEN FIsZero(op.val) ELSE op.val.n = <<>>

\* The operand has no fractional part.
IsWholeOperand(op) ==
    IF op.tag = "Scalar" THEN FIsWhole(op.val)
    ELSE IF op.tag = "Quantity" THEN DecIsWhole(op.val)
    ELSE TRUE

\* The strings "6Ki" and "1Ki".
SixKi == QuantityText(FALSE, <<6>>, 1, 0, 2, 10, "BinarySI")

OneKi == QuantityText(FALSE, <<1>>, 1, 0, 2, 10, "BinarySI")

\* The operands have these two tags, in either order.
TagsAre(t1, t2) ==
    \/ Op1.tag = t1 /\ Op2.tag = t2
    \/ Op1.tag = t2 /\ Op2.tag = t1

\* C17: add, subtract and modulo fail with TypeMismatch on operands of
\* different tags, in either order; on operands of the same tag they never
\* fail with TypeMismatch, add and subtract succeed, and a result has the
\* tag of the operands.
C17_SameTagOnly ==
    \A f \in {"add", "subtract", "modulo"} :
        Applied(f)
            => /\ Op1.tag # Op2.tag => call.out.err = TypeMismatch
               /\ Op1.tag = Op2.tag
                    => /\ call.out.err # TypeMismatch
                       /\ f # "modulo" => call.out.err = ""
                       /\ call.out.err = "" => call.out.tag = Op1.tag

\* A Scalar was added to a Quantity.
C17_Witness ==
    /\ Applied("add")
    /\ Op1.tag = "Quantity" /\ Op2.tag = "Scalar"
    /\ call.out.err = TypeMismatch

\* The Quantity among the operands of a multiplication.
QuantityOperand == IF Op1.tag = "Quantity" THEN Op1 ELSE Op2

\* The Scalar among them, as resource.ParseQuantity reads it.
ScalarOperand == QuantityOfScalar((IF Op1.tag = "Quantity" THEN Op2 ELSE Op1).val)

\* The rows of the table of multiply, and the same result whichever
\* operand comes first.
MultiplyRows ==
    /\ TagsAre("Scalar", "Scalar")
         => call.out.err = "" /\ call.out.tag = "Scalar"
    /\ TagsAre("Scalar", "Quantity")
         => call.out.err = "" /\ call.out.tag = "Quantity"
    /\ TagsAre("Scalar", "Duration")
         => call.out.err = "" /\ call.out.tag = "Duration"
    /\ (TagsAre("Quantity", "Quantity") \/ TagsAre("Duration", "Duration")
             \/ TagsAre("Quantity", "Duration"))
         => call.out.err = TypeMismatch
    /\ call.out = Arithmetic("multiply", call.args.a2, call.args.a1)
    /\ (call.args.a1.text.letters = "2Ki" /\ call.args.a2 = Number(3, 1))
         => call.out.val = SixKi

\* C18 as stated: multiply gives a Scalar for two Scalars, a Quantity in
\* the format of the Quantity operand for a Scalar and a Quantity ("0" is
\* of every format), a Duration for a Scalar and a Duration, the same
\* whichever operand comes first (2Ki by 3 is 6Ki); two Quantities, two
\* Durations and a Quantity with a Duration fail with TypeMismatch.
C18_MultiplyKeepsFormat ==
    Applied("multiply")
        => /\ MultiplyRows
           /\ TagsAre("Scalar", "Quantity")
                => \/ call.out.val = ZeroText
                   \/ call.out.val.format = QuantityOperand.format

\* C18, amended: the same, but the product of a Quantity in BinarySI is
\* written with a binary suffix only when it is a whole multiple of 1024
\* and is not zero, and as a decimal otherwise; the product of a Quantity
\* in DecimalSI is a decimal.
C18_MultiplyTable ==
    Applied("multiply")
        => /\ MultiplyRows
           /\ TagsAre("Scalar", "Quantity")
                => LET product == DecMul(QuantityOperand.val, ScalarOperand.val)
                       binary == /\ QuantityOperand.format = "BinarySI"
                                 /\ ~DecIsZero(product)
                                 /\ DecIsWhole(QuoRoundDown(product,
                                                            Dec(FALSE, BOfInt(1024), 0),
                                                            Max(product.scale, 0) + 10))
                   IN  call.out.val.format =
                           (IF binary THEN "BinarySI" ELSE "DecimalSI")

\* 3 was multiplied by "2Ki", and "2Ki" by 0.375.
C18_Witness ==
    /\ Applied("multiply")
    /\ \/ /\ call.args.a1 = Number(3, 1) /\ call.args.a2.text.letters = "2Ki"
          /\ call.out.tag = "Quantity"
          /\ call.out.val = SixKi
       \/ /\ call.args.a1.text.letters = "2Ki" /\ call.args.a2 = Number(3, 8)
          /\ call.out.tag = "Quantity"
          /\ call.out.val.format = "DecimalSI"

\* C19 as stated: divide fails with TypeMismatch on operands of different
\* tags, and what it returns for operands of the same tag is a Scalar.
C19_DivideSameTagOnly ==
    Applied("divide")
        => /\ Op1.tag # Op2.tag => call.out.err = TypeMismatch
           /\ (Op1.tag = Op2.tag /\ call.out.err = "") => call.out.tag = "Scalar"

\* C19, amended: with a divisor that is not zero, divide gives a Scalar for
\* two operands of the same tag, and a Quantity or a Duration for a
\* Quantity or a Duration divided by a Scalar; a Scalar divided by a
\* Quantity or a Duration, and a Quantity with a Duration in either order,
\* fail with TypeMismatch.
C19_DivideTable ==
    Applied("divide")
        => /\ (Op1.tag = Op2.tag /\ ~IsZeroOperand(Op2))
                => call.out.err = "" /\ call.out.tag = "Scalar"
           /\ (Op1.tag \in {"Quantity", "Duration"} /\ Op2.tag = "Scalar"
                    /\ ~IsZeroOperand(Op2))
                => call.out.err = "" /\ call.out.tag = Op1.tag
           /\ (Op1.tag = "Scalar" /\ Op2.tag # "Scalar")
                => call.out.err = TypeMismatch
           /\ TagsAre("Quantity", "Duration") => call.out.err = TypeMismatch

\* "2Ki" was divided by 2.
C19_Witness ==
    /\ Applied("divide")
    /\ call.args.a1.text.letters = "2Ki" /\ call.args.a2 = Number(2, 1)
    /\ call.out.tag = "Quantity"
    /\ call.out.val = OneKi

\* The divisor is zero and has the tag of the dividend.
ZeroOfSameTag == Op1.tag = Op2.tag /\ IsZeroOperand(Op2)

\* C20 as stated: divide and modulo by a zero of the same tag fail with
\* ZeroDivision.
C20_ZeroDivisionAlways ==
    \A f \in {"divide", "modulo"} :
        (Applied(f) /\ ZeroOfSameTag) => call.out.err = ZeroDivision

\* C20, amended: divide by a zero of the same tag fails with ZeroDivision;
\* modulo by a zero of the same tag fails with NonIntModulo when the left
\* operand is a Scalar or a Quantity with a fractional part and with
\* ZeroDivision otherwise; neither returns a value.
C20_ZeroDivisor ==
    /\ (Applied("divide") /\ ZeroOfSameTag) => call.out.err = ZeroDivision
    /\ (Applied("modulo") /\ ZeroOfSameTag)
        => call.out.err = (IF Op1.tag # "Duration" /\ ~IsWholeOperand(Op1)
                           THEN NonIntModulo ELSE ZeroDivision)
    /\ \A f \in {"divide", "modulo"} :
          (Applied(f) /\ ZeroOfSameTag) => call.out.tag = "nil"

\* "7ns" was divided by "0s".
C20_Witness ==
    /\ Applied("divide")
    /\ call.args.a1.text.letters = "7ns" /\ call.args.a2.text.letters = "0s"
    /\ call.out.err = ZeroDivision

\* r is the remainder of the integer a by the integer b # 0: a = q * b + r
\* for an integer q, r is smaller than b and has the sign of a.
IsRemainder(r, a, b) ==
    /\ IAbs(r) < IAbs(b)
    /\ r = 0 \/ (r < 0) = (a < 0)
    /\ \E q \in (0 - IAbs(a))..IAbs(a) : a = q * b + r

\* The whole number an operand is.
WholeOf(op) ==
    IF op.tag = "Scalar"
    THEN (IF op.val.neg THEN 0 - 1 ELSE 1) * BToInt(FTruncBig(op.val))
    ELSE (IF op.val.neg THEN 0 - 1 ELSE 1)
             * BToInt(BTimesPow10(op.val.n, 0 - op.val.scale))

\* The whole number a result is: a float64, or the string of a quantity
\* without decimals and without a suffix.
WholeResult(out) ==
    IF out.tag = "Scalar"
    THEN (IF out.val.neg THEN 0 - 1 ELSE 1) * BToInt(FTruncBig(out.val))
    ELSE (IF out.val.neg THEN 0 - 1 ELSE 1) * BToInt(out.val.digits)

IsWholeResult(out) ==
    IF out.tag = "Scalar" THEN FIsWhole(out.val)
    ELSE out.val.decimals = 0 /\ out.val.exponent = 0

\* C21: modulo on two Scalars or on two Quantities fails with NonIntModulo
\* when an operand has a fractional part, and for integral operands with a
\* divisor that is not zero it returns, under the tag of the operands, the
\* remainder of the left operand by the right (7 modulo 2 is 1).
C21_IntegralModulo ==
    (Applied("modulo") /\ Op1.tag = Op2.tag /\ Op1.tag \in {"Scalar", "Quantity"})
        => /\ (~IsWholeOperand(Op1) \/ ~IsWholeOperand(Op2))
                => call.out.err = NonIntModulo
           /\ (IsWholeOperand(Op1) /\ IsWholeOperand(Op2) /\ ~IsZeroOperand(Op2))
                => /\ call.out.err = ""
                   /\ call.out.tag = Op1.tag
                   /\ IsWholeResult(call.out)
                   /\ IsRemainder(WholeResult(call.out), WholeOf(Op1), WholeOf(Op2))
           /\ (call.args.a1 = Number(7, 1) /\ call.args.a2 = Number(2, 1))
                => call.out.val = FOfInt(1)

\* 7 modulo 1.5 was asked for and refused.
C21_Witness ==
    /\ Applied("modulo")
    /\ call.args.a1 = Number(7, 1) /\ call.args.a2 = Number(3, 2)
    /\ Op1.tag = "Scalar" /\ Op2.tag = "Scalar"
    /\ call.out.err = NonIntModulo

\* The argument is a number, or a string that is a quantity or a duration.
ValidArgument(a) ==
    \/ a.kind = "number"
    \/ a.kind = "string" /\ (a.text.quantity # <<>> \/ a.text.duration # <<>>)

\* The tag the claim gives a valid argument.
ClaimedTag(a) ==
    IF a.kind = "number" THEN "Scalar"
    ELSE IF a.text.quantity # <<>> THEN "Quantity"
    ELSE "Duration"

\* C22: a call with an argument that is neither a number nor a string
\* that parses as a quantity or a duration fails with the generic error,
\* whatever the function; other calls never do, and the operator applied
\* sees a number as a Scalar, a string that is a quantity (also one that is
\* a duration too) as a Quantity and another string as a Duration: add of
\* an argument to itself gives a result of that tag, and add of two
\* arguments succeeds exactly when their tags are the same.
C22_OperandParsing ==
    ArithmeticCalled
        => LET a1 == call.args.a1
               a2 == call.args.a2
           IN  /\ (~ValidArgument(a1) \/ ~ValidArgument(a2))
                    => call.out = Failure(GenericError)
               /\ (ValidArgument(a1) /\ ValidArgument(a2))
                    => /\ call.out.err # GenericError
                       /\ call.args.operator = "add"
                            => /\ call.out.err = "" <=> ClaimedTag(a1) = ClaimedTag(a2)
                               /\ call.out.err = "" => call.out.tag = ClaimedTag(a1)

\* "0", a quantity and a duration, was added to "3".
C22_Witness ==
    /\ ArithmeticCalled
    /\ call.args.operator = "add"
    /\ call.args.a1.text.letters = "0" /\ call.args.a1.text.duration # <<>>
    /\ call.args.a2.text.letters = "3"
    /\ call.out.tag = "Quantity"

\* ---------------------------------------------------------------------- sum

\* sum has been called once with a list and has returned.
SumCalled == entry = "sum" /\ pc = "done" /\ call.args.isList

\* add after add over the list, from its first element.
RECURSIVE AddFold(_, _)
AddFold(acc, rest) ==
    IF rest = <<>> THEN acc
    ELSE IF acc.err # "" THEN acc
    ELSE AddFold(Arithmetic("add", AsArgument(acc), Head(rest)), Tail(rest))

\* C23: sum over a list fails when the list is empty; over a longer list
\* it gives what add gives, applied from the left, and fails as the first
\* failing add does; and it gives a value only when every element of the
\* list is an operand add accepts.
C23_SumIsFoldOfAdd ==
    SumCalled
        => LET items == call.args.items
           IN  /\ Len(items) = 0 => call.out.err # ""
               /\ Len(items) >= 2
                    => LET folded == AddFold(Arithmetic("add", items[1], items[2]),
                                             SubSeq(items, 3, Len(items)))
                       IN  /\ call.out.err = folded.err
                           /\ folded.err = "" => call.out.value = AsArgument(folded)
               /\ call.out.err = ""
                    => \A i \in 1..Len(items) : ValidArgument(items[i])

\* -------------------------------------------------------------------- items

\* items has been called once with two names that are strings and has
\* returned.
ItemsCalled ==
    /\ entry = "items" /\ pc = "done"
    /\ call.args.keyIsString /\ call.args.valIsString

\* The entries give every key of the object once, in ascending order.
KeysAscending(entries, keys, name) ==
    /\ Len(entries) = Len(keys)
    /\ \A i \in 1..Len(keys) : \E j \in 1..Len(entries) : entries[j][name] = Str(keys[i])
    /\ \A i \in 1..Len(entries), j \in 1..Len(entries) :
          i < j => Less(Tail(entries[i][name]), Tail(entries[j][name]))

\* C24 as stated: for an object items returns one entry per key, in
\* ascending order of the keys, that maps the key name to the key and the
\* value name to the value of the key, whatever order the map was ranged
\* over in; for an array one entry per element, in the order of the array,
\* that maps the key name to the index and the value name to the element.
C24_ItemsEntries ==
    ItemsCalled
        => LET a == call.args
               entries == call.out.entries
           IN  /\ a.kind = "object"
                    => /\ call.out.err = ""
                       /\ KeysAscending(entries, a.order, a.keyName)
                       /\ \A i \in 1..Len(entries) :
                             entries[i][a.valName] = a.vals[Tail(entries[i][a.keyName])]
                       /\ \A o \in Orders({a.order[i] : i \in 1..Len(a.order)}) :
                             jpItems([a EXCEPT !.order = o]) = call.out
               /\ a.kind = "array"
                    => /\ call.out.err = ""
                       /\ Len(entries) = Len(a.elems)
                       /\ \A i \in 1..Len(entries) :
                             /\ entries[i][a.keyName] = Num(i - 1)
                             /\ entries[i][a.valName] = a.elems[i]

\* C24, amended: the same when the two names differ; when one name is
\* given for both, an entry has that one field and it holds the value.
\* The entries are those of the keys in ascending order, and of the
\* elements in the order of the array, and are the same whatever order the
\* map was ranged over in.
C24_ItemsEntriesOfDistinctNames ==
    ItemsCalled
        => LET a == call.args
               entries == call.out.entries
               sorted == SortStrings(a.order)
           IN  /\ a.kind = "object"
                    => /\ call.out.err = ""
                       /\ Len(entries) = Len(a.order)
                       /\ \A i \in 1..Len(entries) :
                             /\ DOMAIN entries[i] = {a.keyName, a.valName}
                             /\ entries[i][a.valName] = a.vals[sorted[i]]
                       /\ a.keyName # a.valName
                            => /\ KeysAscending(entries, a.order, a.keyName)
                               /\ \A i \in 1..Len(entries) :
                                     entries[i][a.valName]
                                         = a.vals[Tail(entries[i][a.keyName])]
                       /\ \A o \in Orders({a.order[i] : i \in 1..Len(a.order)}) :
                             jpItems([a EXCEPT !.order = o]) = call.out
               /\ a.kind = "array"
                    => /\ call.out.err = ""
                       /\ Len(entries) = Len(a.elems)
                       /\ \A i \in 1..Len(entries) :
                             /\ DOMAIN entries[i] = {a.keyName, a.valName}
                             /\ entries[i][a.valName] = a.elems[i]
                             /\ a.keyName # a.valName
                                  => entries[i][a.keyName] = Num(i - 1)

\* The object {"b": 1, "B": 2, "ab": 1}, ranged over in this order, was
\* given with the names "key" and "value".
C24_Witness ==
    /\ ItemsCalled
    /\ call.args.kind = "object"
    /\ call.args.keyName = "key" /\ call.args.valName = "value"
    /\ call.args.order = <<<<98>>, <<66>>, <<97, 98>>>>
    /\ call.args.vals[<<66>>] = Num(2)
    /\ Len(call.out.entries) = 3
    /\ call.out.entries[1] = [key |-> Str(<<66>>), value |-> Num(2)]
    /\ call.out.entries[2]["key"] = Str(<<97, 98>>)
    /\ call.out.entries[3]["key"] = Str(<<98>>)

\* ------------------------------------------------------- argument types

\* The error names the function called, then an index, then a type.
NamesCall(e, f) ==
    /\ e.err = "InvalidArgumentType"
    /\ e.function = f
    /\ IF Len(e.values) # 2 THEN FALSE
       ELSE /\ e.values[1] \in {0, 1, 2, 3}
            /\ e.values[2] \in {"String", "String or Real", "Object", "Array",
                                "Object or Array"}

\* C25: an argument of the wrong type gives an InvalidArgumentType error
\* that names the function called, the index of the argument and the type
\* expected, and in the errors of two calls the index stands in the same
\* relation to the position of the argument.
C25_TypeErrorNamesCall ==
    (entry = "argumentType" /\ pc = "done")
        => /\ NamesCall(call.out[1], call.args[1][1])
           /\ NamesCall(call.out[2], call.args[2][1])
           /\ call.out[1].values[1] - call.args[1][2]
                = call.out[2].values[1] - call.args[2][2]

\* ----------------------------------------------------------------- API call

\* C26: a service call gives data only when the entry defines an APICall,
\* the method is GET or POST and the server answers with success; without
\* an APICall the construction fails with "missing APICall" and nothing is
\* executed, with another method Execute fails with "invalid request
\* type", with an answer of another status it fails naming the status,
\* each without data; the data of a success is the body of the answer: the
\* data the server was built with for a GET, the body of the request for a
\* POST.
C26_APICallChecks ==
    (entry = "apiCall" /\ pc = "done")
        => LET e == call.args.entry
               resp == ServeHTTP(call.args.responseData, e.method, e.path, e.body)
           IN  /\ ~e.hasAPICall => call.out = CallFailure("missing APICall")
               /\ (e.hasAPICall /\ e.method \notin {"GET", "POST"})
                    => call.out = CallFailure("invalid request type")
               /\ (e.hasAPICall /\ e.method \in {"GET", "POST"} /\ resp.status # 200)
                    => call.out = CallFailure("HTTP 404")
               /\ (e.hasAPICall /\ e.method \in {"GET", "POST"} /\ resp.status = 200)
                    => /\ call.out.err = ""
                       /\ call.out.data = resp.body
                       /\ e.method = "GET" => call.out.data = call.args.responseData
                       /\ e.method = "POST" => call.out.data = e.body
               /\ call.out.err # "" => call.out.data = ""

\* A GET of a path the server does not have was executed.
C26_Witness ==
    /\ entry = "apiCall" /\ pc = "done"
    /\ call.args.entry.hasAPICall
    /\ call.args.entry.method = "GET" /\ call.args.entry.path = ""
    /\ call.out.err = "HTTP 404"

\* ------------------------------------------------------------ nesting

\* The activations are nested one in the other from nesting 0, each one
\* deeper than the one that called it.
NestedByOne ==
    \A i \in 1..Len(stack) : stack[i].nesting = i - 1

\* The deepest nesting at which the rules declare a for-each is MaxNesting,
\* so that its elements are validated at nesting MaxNesting + 1. A limit on
\* the nesting that bounds the recursion stops a rule that declares deeper
\* than the limit: for these rules it lets no validator run at a nesting
\* greater than MaxNesting.
\*
\* C27: the validator of a rule runs at nesting 0 and the validator of an
\* element at one more than the validator whose for-each the element is
\* of, and the nesting bounds the recursion: no validator runs at the
\* nesting of the elements of the deepest for-each declared.
C27_DepthBoundsRecursion ==
    entry = "validate"
        => /\ NestedByOne
           /\ \A i \in 1..Len(stack) : stack[i].nesting <= MaxNesting

\* ------------------------------------------------------- last element

\* The validate of an element has returned Error to validateElements.
ElementError ==
    /\ entry = "validate" /\ pc = "run" /\ stack # <<>>
    /\ Top.at = "elementResult" /\ ret.kind = "validate"
    /\ ret.resp.status = "error"

\* C28: the loop goes on after an Error of an element exactly when the
\* position of the element in the list, null elements counted, is less
\* than the length of the list minus one, and otherwise returns the Error;
\* the index bound for an element is that position; so when validateElements
\* returns after a null element with an Error passed over, it returns Pass.
C28_LastByPosition ==
    /\ [][ElementError
            => LET f == stack'[Len(stack')]
               IN  IF Top.index < Top.n - 1
                   THEN /\ f.at = "elements"
                        /\ f.index = Top.index + 1
                        /\ f.count = Top.count
                        /\ f.swallowed
                   ELSE /\ f.at = "forEachResult"
                        /\ ret'.kind = "elements"
                        /\ ret'.resp.status = "error"]_vars
    /\ [](entry = "validate"
            => \A i \in 2..Len(stack) :
                  stack[i].at = "validate"
                      => /\ stack[i - 1].at = "elementResult"
                         /\ stack[i - 1].index < stack[i - 1].n
                         /\ jsonContext.jsonRaw["elementIndex"] = stack[i - 1].index)
    /\ []((ElementsReturned /\ ret.frame.lastNull /\ ret.frame.swallowed)
            => /\ ret.resp.status = "pass"
               /\ ret.frame.index = ret.frame.n)

\* A list of two elements: the first gave Error, the last is null, and
\* validateElements returned Pass with nothing counted.
C28_Witness ==
    /\ ElementsReturned
    /\ ret.frame.n = 2 /\ ret.frame.index = 2
    /\ ret.frame.swallowed /\ ret.frame.lastNull
    /\ ret.frame.count = 0
    /\ ret.resp.status = "pass"

\* ------------------------------------------------------------ rule bodies

\* What validate did after the preconditions.
BodySteps == SubSeq(call.out.trace, 3, Len(call.out.trace))

\* C29: after the preconditions validate evaluates the deny conditions and
\* nothing else when the validator has a deny; else substitutes and matches
\* the pattern and nothing else when it has a pattern; else the anyPattern
\* when it has one; else enters the for-each when one is declared; and
\* with none of them does nothing and returns no response.
C29_OneBodyInOrder ==
    BodyReached
        => LET v == call.args.v
           IN  /\ v.deny => (BodySteps = <<"deny">> /\ ~call.out.enter)
               /\ (~v.deny /\ v.pattern)
                    => /\ BodySteps \in {<<"substitute:pattern">>,
                                         <<"substitute:pattern", "match:pattern">>}
                       /\ ~call.out.enter
               /\ (~v.deny /\ ~v.pattern /\ v.anyPattern)
                    => /\ BodySteps \in {<<"substitute:anyPattern">>,
                                         <<"substitute:anyPattern", "match:anyPattern">>}
                       /\ ~call.out.enter
               /\ (~v.deny /\ ~v.pattern /\ ~v.anyPattern /\ v.forEach # NilForEach)
                    => (BodySteps = <<"forEach">> /\ call.out.enter)
               /\ (~v.deny /\ ~v.pattern /\ ~v.anyPattern /\ v.forEach = NilForEach)
                    => /\ BodySteps = <<>>
                       /\ ~call.out.enter
                       /\ call.out.resp = NilResponse

\* A validator with a pattern, an anyPattern and a for-each matched its
\* pattern.
C29_Witness ==
    /\ BodyReached
    /\ ~call.args.v.deny /\ call.args.v.pattern /\ call.args.v.anyPattern
    /\ call.args.v.forEach # NilForEach
    /\ BodySteps = <<"substitute:pattern", "match:pattern">>

\* ------------------------------------------------------- mutate existing

\* The target has an object that was added to the context, and something
\* to answer: its context did not load, its preconditions failed or were
\* not met, or the mutation gave a response.
Answers1(t) ==
    /\ t.object /\ t.add = "ok"
    /\ t.load # "ok" \/ t.pre # "true" \/ t.mutate # "nil"

\* The status of the answer of such a target.
StatusOf(t) ==
    IF t.load # "ok" THEN "error"
    ELSE IF t.pre = "err" THEN "error"
    ELSE IF t.pre # "true" THEN "skip"
    ELSE t.mutate

\* C30: Process returns the resource it was given; whatever happened to
\* the targets before it (and whether or not loading the targets failed),
\* a target with something to answer has exactly one response, with the
\* status of its own outcome, and a target without has none; the responses
\* are in the order of the targets, after that of a failed loading.
C30_TargetsIndependent ==
    MutateExistingCalled
        => LET rs == call.out.responses
               ts == call.args.targets
           IN  /\ call.out.resource = call.args.resource
               /\ \A i \in 1..Len(ts) :
                     LET mine == SelectSeq(rs, LAMBDA r : r.target = i)
                     IN  IF Answers1(ts[i])
                         THEN Len(mine) = 1 /\ mine[1].status = StatusOf(ts[i])
                         ELSE mine = <<>>
               /\ \A k \in 1..Len(rs), l \in 1..Len(rs) :
                     k < l => rs[k].target < rs[l].target
               /\ call.args.loadErr <=> (rs # <<>> /\ rs[1].target = 0)

\* Loading the targets failed, the context of the first target did not
\* load but left an entry bound, and the second target was mutated.
C30_Witness ==
    /\ MutateExistingCalled
    /\ call.args.loadErr
    /\ Len(call.args.targets) = 2
    /\ call.args.targets[1].load = "err"
    /\ call.args.targets[1].loaded /\ ~call.args.targets[2].loaded
    /\ jsonContext.jsonRaw["entry"] = 1 /\ jsonContext.jsonRaw["target"] = 2
    /\ call.args.targets[2].mutate = "pass"
    /\ Len(call.out.responses) = 3
    /\ call.out.responses[3].status = "pass"
    /\ call.out.resource = call.args.resource

====
